---- MODULE Spec2Model ----
(***************************************************************************)
(* Korean <-> English translation assistant: the /api/translate route and  *)
(* the translateText pipeline (language detection, optional rule           *)
(* transformation, primary translation with formality fallback,            *)
(* back-translation, accuracy scoring, result assembly).                   *)
(*                                                                         *)
(* Two implementations of translateText are kept in the repository and are *)
(* both modelled; the variable `variant` says which one serves a request:  *)
(*   "ai"  server/services/ai.js  (DeepL + Perplexity rule transformation, *)
(*         token-overlap scorer)  - the one the server imports             *)
(*   "dg"  the DeepL + Gemini variant (generative scorer)                  *)
(*                                                                         *)
(* Texts are sequences of characters; each character stands for a class of *)
(* code units the code distinguishes:                                      *)
(*   "k" a Hangul syllable (U+AC00..U+D7A3)   "a" an ASCII lowercase letter*)
(*   " " a whitespace character               "q" a quote character        *)
(*   "b" another lowercase letter             "A" the upper case of "a"    *)
(*   "!" a punctuation character                                           *)
(*                                                                         *)
(* Specifications: Spec is the translate route, SimSpec applies            *)
(* calculateTextSimilarity to every pair of scorer texts (its arithmetic   *)
(* is IEEE binary64, as JavaScript computes it), VarSpec is the            *)
(* /api/variation route over the three generateVariation implementations,  *)
(* ProfileSpec is the profile store behind /api/profiles (a write of the   *)
(* profiles file may fail and is then only logged), ClientSpec is          *)
(* concurrent handlers sharing the lazily built client handles (the        *)
(* other specifications run on a configured server, where the              *)
(* constructors return), GenSpec is the generative-only service, whose     *)
(* replies are parsed by regex and JSON.parse, PageSpec is the browser     *)
(* page: its listeners, debounce timer and requests in flight.             *)
(***************************************************************************)
EXTENDS Integers, Sequences, FiniteSets, TLC

\* ------------------------------------------------------------------ bounds
MaxLen == 4        \* longest request text, in characters
MaxSimLen == 3     \* longest text given to the similarity scorer alone
MaxTokens == 12    \* most tokens of a text given to the similarity scorer
MaxClock == 2      \* last millisecond of the clock
MaxProfiles == 2   \* most custom profiles in the store
MaxRequests == 3   \* most handlers in flight at once
MaxResponseLen == 2 \* most chunks of a generative response
MaxIssued == 2      \* most requests the page sends
MaxTimers == 3      \* most debounce timers the page schedules

\* --------------------------------------------------------------- alphabet
Chars == {"k", "a", " "}
Whitespace == {" "}
Korean == {"k"}
Quotes == {"q"}

RECURSIVE TextsOfLen(_)
TextsOfLen(n) ==
    IF n = 0 THEN {<<>>}
    ELSE {Append(t, c) : t \in TextsOfLen(n - 1), c \in Chars}

Texts == UNION {TextsOfLen(n) : n \in 0..MaxLen}

\* Texts the similarity scorer is applied to on its own.
SimChars == {"a", "b", "A", "!", " "}

RECURSIVE SimTextsOfLen(_)
SimTextsOfLen(n) ==
    IF n = 0 THEN {<<>>}
    ELSE {Append(t, c) : t \in SimTextsOfLen(n - 1), c \in SimChars}

\* n times the one-letter token c, separated by single blanks.
RepeatToken(c, n) == [i \in 1..(2 * n - 1) |-> IF i % 2 = 1 THEN c ELSE " "]

\* Every short text, and longer texts made of one repeated token.
SimTexts ==
    UNION {SimTextsOfLen(n) : n \in 0..MaxSimLen}
      \cup {RepeatToken(c, n) : c \in {"a", "b"}, n \in 1..MaxTokens}

\* Texts a translation backend may answer with, and texts the generative
\* backend may answer a rule-transformation prompt with.
ProviderTexts == {<<"a">>, <<"k", " ", "k">>}
RuleResponses == {<<"a", "a">>, <<"q", "k", "q">>, <<" ">>, <<"q">>}

\* Failure causes of a backend call: a rejection of the formality parameter
\* (its message names the parameter) or any other failure.
FormalityRejected == "formality not supported"
QuotaExceeded == "quota exceeded"
Causes == {FormalityRejected, QuotaExceeded}

ProfileIds == {"natural", "parent-talk", "direct", "custom-1"}
RuleSets == {<<>>, <<"rule1">>}
Variants == {"ai", "dg"}

Null == <<"null">>
Undefined == <<"undefined">>
NoHint == "none"

\* ------------------------------------------------------- string helpers
CountIf(s, S) == Cardinality({i \in 1..Len(s) : s[i] \in S})

RECURSIVE TrimLeft(_)
TrimLeft(s) ==
    IF s # <<>> /\ Head(s) \in Whitespace THEN TrimLeft(Tail(s)) ELSE s

RECURSIVE TrimRight(_)
TrimRight(s) ==
    IF s # <<>> /\ s[Len(s)] \in Whitespace
    THEN TrimRight(SubSeq(s, 1, Len(s) - 1)) ELSE s

\* String.prototype.trim
Trim(s) == TrimRight(TrimLeft(s))

\* s.replace(/^["']|["']$/g, ''): one leading and one trailing quote go.
StripQuotes(s) ==
    LET a == IF s # <<>> /\ Head(s) \in Quotes THEN Tail(s) ELSE s
    IN  IF a # <<>> /\ a[Len(a)] \in Quotes THEN SubSeq(a, 1, Len(a) - 1) ELSE a

\* ------------------------------------------------------ detectLanguage
\* text.match(koreanRegex) with a regex that has no g flag: the match array
\* holds the first match only, so its length is 1 when any Korean character
\* occurs and the count is 0 otherwise.
koreanChars(text) == IF \E i \in 1..Len(text) : text[i] \in Korean THEN 1 ELSE 0

totalChars(text) == Len(text) - CountIf(text, Whitespace)

\* koreanChars / totalChars > 0.3; 0/0 is NaN and NaN > 0.3 is false.
detectLanguage(text) ==
    IF totalChars(text) > 0 /\ 10 * koreanChars(text) > 3 * totalChars(text)
    THEN "ko" ELSE "en"

\* ----------------------------------------------- calculateTextSimilarity
ToLower(c) == IF c = "A" THEN "a" ELSE c
Kept(c) == c \in {"a", "b", "A", "k"} \cup Whitespace      \* [\w\s가-힣]

\* text.toLowerCase().replace(/[^\w\s가-힣]/g, '').trim()
normalize(text) ==
    Trim(SelectSeq([i \in 1..Len(text) |-> ToLower(text[i])], Kept))

\* s.split(/\s+/): a run of whitespace separates two pieces; the empty
\* string splits into one empty piece.
RECURSIVE SplitRec(_, _, _)
SplitRec(s, cur, acc) ==
    IF s = <<>> THEN Append(acc, cur)
    ELSE IF Head(s) \in Whitespace
         THEN SplitRec(TrimLeft(s), <<>>, Append(acc, cur))
         ELSE SplitRec(Tail(s), Append(cur, Head(s)), acc)

NonEmptyToken(t) == Len(t) > 0

tokenize(text) == SelectSeq(SplitRec(normalize(text), <<>>, <<>>), NonEmptyToken)

Range(s) == {s[i] : i \in 1..Len(s)}
Min2(a, b) == IF a < b THEN a ELSE b
Max2(a, b) == IF a > b THEN a ELSE b

\* num / den rounded to the nearest integer in exact arithmetic, a tie
\* going up (num >= 0, den > 0).
RoundDiv(num, den) == (2 * num + den) \div (2 * den)

\* Mutant: the overlap is divided by the number of tokens of both texts.
combinedScoreTokenTotal(matchCount, unionSize, mn, mx) ==
    RoundDiv(70 * matchCount * mx + 30 * mn * (mn + mx), (mn + mx) * mx)

\* ---- IEEE 754 binary64, the arithmetic of every JavaScript number.
\* A natural number wider than 31 bits is a sequence of limbs of LimbBits
\* bits, least significant first, without a zero top limb.  A positive
\* double is [m, e]: a mantissa of MantissaBits bits and the value m * 2^e.
LimbBits == 14
Limb == 2 ^ LimbBits
MantissaBits == 53
FractionBits == 60     \* quotient bits kept before rounding a division

StripTop(a) ==
    LET used == {i \in 1..Len(a) : a[i] # 0}
    IN  SubSeq(a, 1, IF used = {} THEN 0
                     ELSE CHOOSE i \in used : \A j \in used : j <= i)

BigOf(n) == StripTop([i \in 1..3 |-> (n \div (Limb ^ (i - 1))) % Limb])

LimbAt(a, i) == IF i \in 1..Len(a) THEN a[i] ELSE 0

\* the value of a number of at most two limbs
IntOf(a) == LimbAt(a, 1) + (Limb * LimbAt(a, 2))

BitLen(a) ==
    IF a = <<>> THEN 0
    ELSE (LimbBits * (Len(a) - 1))
            + (CHOOSE k \in 1..LimbBits :
                  2 ^ (k - 1) <= a[Len(a)] /\ a[Len(a)] < 2 ^ k)

\* bit i of a, bit 0 being the least significant
Bit(a, i) == (LimbAt(a, (i \div LimbBits) + 1) \div (2 ^ (i % LimbBits))) % 2

LowBitsSet(a, k) == \E i \in 0..(k - 1) : Bit(a, i) = 1

ShiftRight(a, k) ==
    LET q == k \div LimbBits
        r == k % LimbBits
    IN  StripTop([i \in 1..(Len(a) - q) |->
            (LimbAt(a, i + q) \div (2 ^ r))
              + ((LimbAt(a, i + q + 1) % (2 ^ r)) * (2 ^ (LimbBits - r)))])

ShiftLeft(a, k) ==
    LET q == k \div LimbBits
        r == k % LimbBits
    IN  StripTop([i \in 1..(Len(a) + q + 1) |->
            ((LimbAt(a, i - q) * (2 ^ r)) % Limb)
              + (LimbAt(a, i - q - 1) \div (2 ^ (LimbBits - r)))])

\* column sums below 2^31 to limbs
RECURSIVE Carry(_, _)
Carry(cols, carry) ==
    IF cols = <<>>
    THEN (IF carry = 0 THEN <<>>
          ELSE <<carry % Limb>> \o Carry(cols, carry \div Limb))
    ELSE LET t == Head(cols) + carry
         IN  <<t % Limb>> \o Carry(Tail(cols), t \div Limb)

BigAdd(a, b) ==
    Carry([i \in 1..Max2(Len(a), Len(b)) |-> LimbAt(a, i) + LimbAt(b, i)], 0)

RECURSIVE ColumnSum(_, _, _, _)
ColumnSum(a, b, k, i) ==
    IF i > Len(a) THEN 0
    ELSE (a[i] * LimbAt(b, k - i + 1)) + ColumnSum(a, b, k, i + 1)

BigMultiply(a, b) ==
    IF a = <<>> \/ b = <<>> THEN <<>>
    ELSE StripTop(Carry([k \in 1..(Len(a) + Len(b) - 1) |->
                            ColumnSum(a, b, k, 1)], 0))

\* quotient and remainder of limbs 1..i of a by the small number b
RECURSIVE LongDiv(_, _, _, _)
LongDiv(a, i, b, r) ==
    IF i = 0 THEN [q |-> <<>>, r |-> r]
    ELSE LET t == (r * Limb) + a[i]
             rest == LongDiv(a, i - 1, b, t % b)
         IN  [q |-> Append(rest.q, t \div b), r |-> rest.r]

Zero == [m |-> <<>>, e |-> 0]

\* The double nearest to n * 2^e (plus a nonzero rest below the last bit
\* of n when sticky), a tie going to the even mantissa.
Binary64(n, e, sticky) ==
    LET s == BitLen(n) - MantissaBits
    IN  IF n = <<>> THEN Zero
        ELSE IF s <= 0 THEN [m |-> ShiftLeft(n, -s), e |-> e + s]
        ELSE LET q == ShiftRight(n, s)
                 rest == sticky \/ LowBitsSet(n, s - 1)
                 up == Bit(n, s - 1) = 1 /\ (rest \/ Bit(q, 0) = 1)
                 r == IF up THEN BigAdd(q, <<1>>) ELSE q
             IN  IF BitLen(r) > MantissaBits
                 THEN [m |-> ShiftRight(r, 1), e |-> e + s + 1]
                 ELSE [m |-> r, e |-> e + s]

\* a / b for two small naturals
DoubleDivide(a, b) ==
    LET num == ShiftLeft(BigOf(a), FractionBits)
        d == LongDiv(num, Len(num), b, 0)
    IN  Binary64(StripTop(d.q), -FractionBits, d.r # 0)

DoubleTimes(v, w) == Binary64(BigMultiply(v.m, w.m), v.e + w.e, FALSE)

DoublePlus(v, w) ==
    IF v.m = <<>> THEN w
    ELSE IF w.m = <<>> THEN v
    ELSE LET e == Min2(v.e, w.e)
         IN  Binary64(BigAdd(ShiftLeft(v.m, v.e - e),
                             ShiftLeft(w.m, w.e - e)), e, FALSE)

\* Math.round: the nearest integer, a tie going up.
MathRound(v) ==
    IF v.m = <<>> THEN 0
    ELSE IF v.e >= 0 THEN IntOf(ShiftLeft(v.m, v.e))
    ELSE IntOf(ShiftRight(v.m, -v.e)) + Bit(v.m, -v.e - 1)

\* (a / b) * 100 * 0.7 and (a / b) * 100 * 0.3, the literals 0.7 and 0.3
\* being the doubles nearest to 7/10 and 3/10.
Weighted(a, b, tenths) ==
    DoubleTimes(DoubleTimes(DoubleDivide(a, b), DoubleDivide(100, 1)),
                DoubleDivide(tenths, 10))

\* The two terms for every pair of counts the texts of the model give.
jaccardTerm ==
    [a \in 0..(2 * MaxTokens) |-> [b \in 1..(2 * MaxTokens) |-> Weighted(a, b, 7)]]
lengthTerm ==
    [a \in 0..(2 * MaxTokens) |-> [b \in 1..(2 * MaxTokens) |-> Weighted(a, b, 3)]]

\* Math.round((jaccardScore * 0.7) + (lengthRatio * 100 * 0.3)) with
\* jaccardScore = (matchCount / unionSize) * 100 and lengthRatio = mn / mx.
combinedScore(matchCount, unionSize, mn, mx) ==
    MathRound(DoublePlus(jaccardTerm[matchCount][unionSize], lengthTerm[mn][mx]))

\* Mutant: the bands use > where the code uses >=.
explainStrict(score) ==
    IF score > 85 THEN "Excellent semantic preservation"
    ELSE IF score > 70 THEN "Good meaning retention with minor variations"
    ELSE IF score > 50 THEN "Moderate similarity - some nuances may differ"
    ELSE "Translation may have significant interpretation"

explain(score) ==
    IF score >= 85 THEN "Excellent semantic preservation"
    ELSE IF score >= 70 THEN "Good meaning retention with minor variations"
    ELSE IF score >= 50 THEN "Moderate similarity - some nuances may differ"
    ELSE "Translation may have significant interpretation"

\* Mutant: the guard asks for both token lists to be empty.
unableToCompareBoth(originalTokens, backTokens) ==
    Len(originalTokens) = 0 /\ Len(backTokens) = 0

\* if (originalTokens.length === 0 || backTokens.length === 0)
unableToCompare(originalTokens, backTokens) ==
    Len(originalTokens) = 0 \/ Len(backTokens) = 0

\* Mutant: the length ratio is max / min and the result is not clamped.
calculateTextSimilarityUnclamped(original, backTranslation) ==
    LET originalTokens == tokenize(original)
        backTokens == tokenize(backTranslation)
        originalSet == Range(originalTokens)
        backSet == Range(backTokens)
        matchCount == Cardinality(originalSet \cap backSet)
        unionSize == Cardinality(originalSet \cup backSet)
        combined == combinedScore(matchCount, unionSize,
                        Max2(Len(originalTokens), Len(backTokens)),
                        Min2(Len(originalTokens), Len(backTokens)))
    IN  IF unableToCompare(originalTokens, backTokens)
        THEN [score |-> 0, explanation |-> "Unable to compare texts"]
        ELSE [score |-> combined, explanation |-> explain(combined)]

\* Mutant: every token of the original that the back-translation has is
\* counted, repeated tokens as often as they occur.
calculateTextSimilarityTokenMatches(original, backTranslation) ==
    LET originalTokens == tokenize(original)
        backTokens == tokenize(backTranslation)
        originalSet == Range(originalTokens)
        backSet == Range(backTokens)
        matchCount == Cardinality({i \in 1..Len(originalTokens) :
                                      originalTokens[i] \in backSet})
        unionSize == Cardinality(originalSet \cup backSet)
        combined == combinedScore(matchCount, unionSize,
                        Min2(Len(originalTokens), Len(backTokens)),
                        Max2(Len(originalTokens), Len(backTokens)))
    IN  IF unableToCompare(originalTokens, backTokens)
        THEN [score |-> 0, explanation |-> "Unable to compare texts"]
        ELSE [score |-> Min2(100, Max2(0, combined)),
              explanation |-> explain(combined)]

calculateTextSimilarity(original, backTranslation) ==
    LET originalTokens == tokenize(original)
        backTokens == tokenize(backTranslation)
        originalSet == Range(originalTokens)
        backSet == Range(backTokens)
        matchCount == Cardinality(originalSet \cap backSet)
        unionSize == Cardinality(originalSet \cup backSet)
        combined == combinedScore(matchCount, unionSize,
                        Min2(Len(originalTokens), Len(backTokens)),
                        Max2(Len(originalTokens), Len(backTokens)))
    IN  IF unableToCompare(originalTokens, backTokens)
        THEN [score |-> 0, explanation |-> "Unable to compare texts"]
        ELSE [score |-> Min2(100, Max2(0, combined)),
              explanation |-> explain(combined)]

\* ------------------------------------------------------------- profiles
\* DEFAULT_PROFILES, by id and name (descriptions and rules are fixed text).
DEFAULT_PROFILES ==
    << [id |-> "natural", name |-> "Natural", isDefault |-> TRUE, canDelete |-> FALSE],
       [id |-> "parent-talk", name |-> "Parent Talk", isDefault |-> TRUE, canDelete |-> FALSE],
       [id |-> "direct", name |-> "Direct", isDefault |-> TRUE, canDelete |-> FALSE] >>

\* ------------------------------------------------------------ the server
VARIABLES
    pc,                 \* where the request handler is
    variant,            \* which translateText serves the request
    req,                \* the request body: text, profileId, customRules
    sourceLanguage, targetLanguage,
    ruleTransformation, \* result of applyCustomRules, or Null
    textToTranslate,
    translatedText,
    backTranslatedText,
    calls,              \* backend calls issued by this request, in order
    answers,            \* the backends' answers to calls, in order
    pending,            \* backend calls issued and not yet answered
    firstError,         \* cause of a failed first primary attempt, or Null
    response,           \* the HTTP response, status 0 while none is sent
    customProfiles,     \* the stored custom profiles (profiles.json)
    sim,                \* one application of calculateTextSimilarity
    vr,                 \* the /api/variation handler: its locals and position
    now,                \* Date.now(), in milliseconds
    lastOp,             \* the last profile-store operation and its outcome
    clients,            \* the module-level backend client handles
    gen,                \* a handler of the generative-only service
    inflight,           \* concurrent handlers, by their use of the clients
    ui                  \* the browser page: state, elements, timers, requests

vars == <<pc, variant, req, sourceLanguage, targetLanguage, ruleTransformation,
          textToTranslate, translatedText, backTranslatedText, calls, answers,
          pending, firstError, response, customProfiles, sim, vr, now, lastOp,
          clients, gen, inflight, ui>>

\* getProfiles / getProfileById
getProfiles == DEFAULT_PROFILES \o customProfiles

HasProfile(id) == \E i \in 1..Len(getProfiles) : getProfiles[i].id = id

getProfileById(id) ==
    getProfiles[CHOOSE i \in 1..Len(getProfiles) :
                    /\ getProfiles[i].id = id
                    /\ \A j \in 1..(i - 1) : getProfiles[j].id # id]

\* ------------------------------------------------- POST /api/translate
\* Mutant: the route tests only for a missing or empty text.
ValidTextNoTrim(text) == text # <<>>

\* if (!text || text.trim() === '') -> 400
ValidText(text) == text # <<>> /\ Trim(text) # <<>>

\* const targetLanguage = sourceLanguage === 'ko' ? 'en-US' : 'ko'
targetOf(source) == IF source = "ko" THEN "en-US" ELSE "ko"

\* Map profiles to DeepL formality
formalityOf(v, profileId) ==
    IF v = "ai"
    THEN IF profileId = "natural" THEN "prefer_more"
         ELSE IF profileId = "parent-talk" THEN "default"
         ELSE IF profileId = "direct" THEN "prefer_less"
         ELSE "default"
    ELSE IF profileId = "parent-talk" THEN "prefer_less" ELSE "default"

profileNote(profileId) ==
    IF profileId = "natural" THEN "Using formal tone for respectful communication"
    ELSE IF profileId = "parent-talk" THEN "Using standard polite tone"
    ELSE IF profileId = "direct" THEN "Using direct/literal translation style"
    ELSE ""

\* The formality option of the first primary call.
primaryOptions(v, target, formality) ==
    IF v = "ai"
    THEN IF target = "ko" THEN formality ELSE NoHint
    ELSE IF target = "en-US" THEN "default" ELSE formality

\* Mutant: ai.js rethrows the first failure instead of retrying.
retryOnNever(v, cause) ==
    IF v = "ai" THEN FALSE ELSE cause = FormalityRejected

\* Whether the catch around the first primary call retries.
retryOn(v, cause) ==
    IF v = "ai" THEN TRUE ELSE cause = FormalityRejected

backTarget(v, source) ==
    IF v = "ai"
    THEN IF source = "ko" THEN "ko" ELSE "en-US"
    ELSE IF source = "ko" THEN "en-US" ELSE "ko"

\* Mutant: the back-translation is sent without the literal bias.
backOptionsNone(v, target) == NoHint

backOptions(v, target) ==
    IF v = "ai" /\ target = "ko" THEN "prefer_less" ELSE NoHint

\* Mutant: the result reports the code the backend was called with.
resultTargetRaw(target) == target

\* targetLanguage === 'en-US' ? 'en' : 'ko'
resultTarget(target) == IF target = "en-US" THEN "en" ELSE "ko"

\* Mutant: the rethrown error drops the cause.
errorMessageGeneric(v, cause) ==
    <<IF v = "ai" THEN "Translation Error: " ELSE "DeepL Error: ", "failed">>

\* throw new Error(`Translation Error: ${error.message}`)
errorMessage(v, cause) ==
    <<IF v = "ai" THEN "Translation Error: " ELSE "DeepL Error: ", cause>>

\* Mutant: applyCustomRules is not awaited, the primary call starts with it.
StepsOnEntryNoAwait(v, customRules) ==
    IF v = "ai" /\ Len(customRules) > 0 THEN <<"rules", "primary">>
    ELSE <<"primary">>

\* Backend calls translateText issues when it is entered.
StepsOnEntry(v, customRules) ==
    IF v = "ai" /\ Len(customRules) > 0 THEN <<"rules">> ELSE <<"primary">>

DeepLCall(step, text, target, formality) ==
    [step |-> step, api |-> "deepl", text |-> text, target |-> target,
     formality |-> formality]

RulesCall(text, rules, source) ==
    [step |-> "rules", api |-> "perplexity", text |-> text, target |-> source,
     formality |-> NoHint]

ScoreCall(original, reTranslation) ==
    [step |-> "score", api |-> "gemini", text |-> original,
     target |-> reTranslation, formality |-> NoHint]

PrimaryCall(v, text, target, profileId) ==
    DeepLCall("primary", text, target,
              primaryOptions(v, target, formalityOf(v, profileId)))

BackCall(v, text, source) ==
    DeepLCall("back", text, backTarget(v, source),
              backOptions(v, backTarget(v, source)))

EntryCall(step, v, text, source, profileId, customRules) ==
    IF step = "rules" THEN RulesCall(text, customRules, source)
    ELSE PrimaryCall(v, text, targetOf(source), profileId)

\* Causes a call can fail with: the formality parameter can only be rejected
\* when the call carries it.
FailuresOf(call) ==
    IF call.formality = NoHint THEN {QuotaExceeded} ELSE Causes

NoTransformation == [present |-> FALSE]

\* Mutant: an empty cleaned text is returned as it is.
applyCustomRulesOkNoFallback(text, rules, content) ==
    [present |-> TRUE,
     transformedText |-> Trim(StripQuotes(Trim(content))),
     appliedRules |-> rules, error |-> ""]

\* applyCustomRules, once the generative backend has answered `content`.
applyCustomRulesOk(text, rules, content) ==
    LET transformedText == Trim(content)
        cleaned == Trim(StripQuotes(transformedText))
    IN  [present |-> TRUE,
         transformedText |-> IF cleaned # <<>> THEN cleaned ELSE text,
         appliedRules |-> rules, error |-> ""]

\* Mutant: the catch returns no text instead of the original.
applyCustomRulesFailedEmpty(text, cause) ==
    [present |-> TRUE, transformedText |-> <<>>, appliedRules |-> <<>>,
     error |-> cause]

\* applyCustomRules, when the generative backend has failed.
applyCustomRulesFailed(text, cause) ==
    [present |-> TRUE, transformedText |-> text, appliedRules |-> <<>>,
     error |-> cause]

notesOf(v, profileId, text, rt) ==
    IF v = "dg"
    THEN [note |-> IF profileId = "parent-talk"
                   THEN "Using informal tone (DeepL)" ELSE "",
          rules |-> <<>>, transformed |-> Null]
    ELSE IF rt.present /\ Len(rt.appliedRules) > 0
         THEN [note |-> "Rules applied: ", rules |-> rt.appliedRules,
               transformed |-> IF rt.transformedText # text
                               THEN rt.transformedText ELSE Null]
         ELSE [note |-> profileNote(profileId), rules |-> <<>>,
               transformed |-> Null]

profileUsedOf(v, profileId) ==
    IF HasProfile(profileId) THEN getProfileById(profileId).name
    ELSE IF v = "ai" THEN "DeepL" ELSE "Custom (DeepL)"

\* The TranslationResult both variants assemble.
ResultOf(v, r, source, target, rt, translated, back, accuracy) ==
    [original |-> r.text,
     sourceLanguage |-> source,
     targetLanguage |-> resultTarget(target),
     translation |-> translated,
     translationConfidence |-> 1,
     translationNotes |-> notesOf(v, r.profileId, r.text, rt),
     reTranslation |-> back,
     reTranslationNotes |-> "",
     accuracyScore |-> accuracy,
     profileUsed |-> profileUsedOf(v, r.profileId),
     transformedText |->
        IF v = "dg" \/ ~rt.present THEN Undefined
        ELSE IF rt.transformedText # r.text THEN rt.transformedText ELSE Null]

NoResponse == [status |-> 0]

\* Scores the generative scorer may answer with.
ModelScores == {[score |-> 85, explanation |-> "brief explanation"]}

\* The substitute of the catch around calculateAccuracyScore.
scoreFallback == [score |-> 0, explanation |-> "Scoring temporarily unavailable"]

NoSim == [scored |-> FALSE]
NoOp == [op |-> "none"]
\* A client handle: null (0) or the object the n-th construction made, how
\* many objects were constructed, and whether a getter was ever called.
Unbuilt == [handle |-> 0, built |-> 0, used |-> FALSE]

\* let deeplTranslator = null; let perplexityClient = null; let genAI = null;
NoClients == [deepl |-> Unbuilt, perplexity |-> Unbuilt, genai |-> Unbuilt]

\* Mutant: the getter constructs a new client on every call.
lazyAlways(c, constructed) ==
    IF constructed
    THEN [handle |-> c.built + 1, built |-> c.built + 1, used |-> TRUE]
    ELSE [c EXCEPT !.used = TRUE]

\* if (!client) { client = new Client(key) } return client;
\* `constructed` tells whether the constructor returns or throws.
lazy(c, constructed) ==
    IF c.handle = 0 /\ constructed
    THEN [handle |-> c.built + 1, built |-> c.built + 1, used |-> TRUE]
    ELSE [c EXCEPT !.used = TRUE]

getDeepL(cl, constructed) == [cl EXCEPT !.deepl = lazy(@, constructed)]
getPerplexity(cl, constructed) == [cl EXCEPT !.perplexity = lazy(@, constructed)]
getGenAI(cl, constructed) == [cl EXCEPT !.genai = lazy(@, constructed)]

\* The getter threw: no handle was set and the constructor failed.
getterThrew(c, constructed) == c.handle = 0 /\ ~constructed

NoGen == [pc |-> "idle"]

\* state.currentTranslation = null
NoTranslation == [present |-> FALSE]

\* The page after init(): nothing typed, nothing translated, no timer.
NoPage ==
    [inputText |-> <<>>,
     currentTranslation |-> NoTranslation,
     selectedProfile |-> "natural",
     debounceTimer |-> 0,
     timers |-> {},
     requests |-> {},
     translationOutput |-> "placeholder",
     copyDisabled |-> TRUE,
     variationDisabled |-> TRUE,
     issued |-> 0,
     lastTranslate |-> 0,
     lastInput |-> <<>>,
     firedSinceInput |-> 0,
     cancelled |-> 0,
     resolved |-> {},
     cleared |-> FALSE]
NoVariation == [pc |-> "idle"]

locals == <<sourceLanguage, targetLanguage, ruleTransformation, textToTranslate,
            translatedText, backTranslatedText, firstError>>

Init ==
    /\ pc = "idle"
    /\ variant = "ai"
    /\ req = [text |-> <<>>, profileId |-> "natural", customRules |-> <<>>]
    /\ sourceLanguage = ""
    /\ targetLanguage = ""
    /\ ruleTransformation = NoTransformation
    /\ textToTranslate = <<>>
    /\ translatedText = <<>>
    /\ backTranslatedText = <<>>
    /\ calls = <<>>
    /\ answers = <<>>
    /\ pending = 0
    /\ firstError = ""
    /\ response = NoResponse
    /\ customProfiles = <<>>
    /\ sim = NoSim
    /\ vr = NoVariation
    /\ now = 1
    /\ lastOp = NoOp
    /\ clients = NoClients
    /\ gen = NoGen
    /\ inflight = <<>>
    /\ ui = NoPage

Answered(step, text) == [step |-> step, ok |-> TRUE, text |-> text, cause |-> ""]
Failed(step, cause) == [step |-> step, ok |-> FALSE, text |-> <<>>, cause |-> cause]

\* The call of the given step that is awaiting its answer.
LastCall(step) ==
    calls[CHOOSE i \in 1..Len(calls) :
            /\ calls[i].step = step
            /\ \A j \in (i + 1)..Len(calls) : calls[j].step # step]

Respond(status, body) ==
    /\ response' = [status |-> status, body |-> body]
    /\ pc' = "done"

\* The outer catch of translateText and the catch of the route.
Throw(cause) == Respond(500, [error |-> errorMessage(variant, cause)])

\* A request with a missing, empty or whitespace-only text: 400.
PostTranslateRejected(v, text, profileId, customRules) ==
    /\ pc = "idle"
    /\ ~ValidText(text)
    /\ variant' = v
    /\ req' = [text |-> text, profileId |-> profileId, customRules |-> customRules]
    /\ sourceLanguage' = ""
    /\ targetLanguage' = ""
    /\ ruleTransformation' = NoTransformation
    /\ textToTranslate' = <<>>
    /\ translatedText' = <<>>
    /\ backTranslatedText' = <<>>
    /\ firstError' = ""
    /\ calls' = <<>>
    /\ answers' = <<>>
    /\ pending' = 0
    /\ Respond(400, [error |-> <<"Text is required">>])
    /\ UNCHANGED <<customProfiles, sim, vr, now, lastOp, clients, gen, inflight, ui>>

\* A valid request enters translateText, which runs to its first await.
PostTranslate(v, text, profileId, customRules) ==
    /\ pc = "idle"
    /\ ValidText(text)
    /\ LET source == detectLanguage(text)
           steps == StepsOnEntry(v, customRules)
       IN  /\ sourceLanguage' = source
           /\ targetLanguage' = targetOf(source)
           /\ calls' = [i \in 1..Len(steps) |->
                          EntryCall(steps[i], v, text, source, profileId, customRules)]
           /\ pending' = Len(steps)
           /\ answers' = <<>>
           /\ pc' = steps[1]
    /\ variant' = v
    /\ req' = [text |-> text, profileId |-> profileId, customRules |-> customRules]
    /\ ruleTransformation' = NoTransformation
    /\ textToTranslate' = text
    /\ translatedText' = <<>>
    /\ backTranslatedText' = <<>>
    /\ firstError' = ""
    /\ response' = NoResponse
    /\ clients' = IF StepsOnEntry(v, customRules)[1] = "rules"
                  THEN getPerplexity(clients, TRUE)
                  ELSE getDeepL(clients, TRUE)
    /\ UNCHANGED <<customProfiles, sim, vr, now, lastOp, gen, inflight, ui>>

\* applyCustomRules returns; translateText issues the primary translation.
AfterRules(rt) ==
    /\ ruleTransformation' = rt
    /\ textToTranslate' = rt.transformedText
    /\ calls' = Append(calls, PrimaryCall(variant, rt.transformedText,
                                          targetLanguage, req.profileId))
    /\ pending' = pending - 1 + 1
    /\ pc' = "primary"
    /\ clients' = getDeepL(clients, TRUE)
    /\ UNCHANGED <<variant, req, sourceLanguage, targetLanguage, translatedText,
                   backTranslatedText, firstError, response, customProfiles,
                   sim, vr, now, lastOp, gen, inflight, ui>>

RulesOk(content) ==
    /\ pc = "rules"
    /\ answers' = Append(answers, Answered("rules", content))
    /\ AfterRules(applyCustomRulesOk(req.text, req.customRules, content))

RulesFailed(cause) ==
    /\ pc = "rules"
    /\ answers' = Append(answers, Failed("rules", cause))
    /\ cause \in FailuresOf(LastCall("rules"))
    /\ AfterRules(applyCustomRulesFailed(req.text, cause))

\* The primary translation produced `text`: issue the back-translation.
AfterPrimary(text) ==
    /\ translatedText' = text
    /\ calls' = Append(calls, BackCall(variant, text, sourceLanguage))
    /\ pending' = pending - 1 + 1
    /\ pc' = "back"
    /\ UNCHANGED <<variant, req, sourceLanguage, targetLanguage,
                   ruleTransformation, textToTranslate, backTranslatedText,
                   firstError, response, customProfiles, sim, vr, now, lastOp, clients, gen, inflight, ui>>

PrimaryOk(text) ==
    /\ pc = "primary"
    /\ answers' = Append(answers, Answered("primary", text))
    /\ AfterPrimary(text)

\* The first attempt failed and the catch retries without options.
PrimaryFailedRetry(cause) ==
    /\ pc = "primary"
    /\ answers' = Append(answers, Failed("primary", cause))
    /\ cause \in FailuresOf(LastCall("primary"))
    /\ retryOn(variant, cause)
    /\ firstError' = cause
    /\ calls' = Append(calls, DeepLCall("retry", textToTranslate, targetLanguage, NoHint))
    /\ pending' = pending - 1 + 1
    /\ pc' = "retry"
    /\ UNCHANGED <<variant, req, sourceLanguage, targetLanguage,
                   ruleTransformation, textToTranslate, translatedText,
                   backTranslatedText, response, customProfiles, sim, vr, now, lastOp, clients, gen, inflight, ui>>

\* The first attempt failed and the catch rethrows.
PrimaryFailedFatal(cause) ==
    /\ pc = "primary"
    /\ answers' = Append(answers, Failed("primary", cause))
    /\ cause \in FailuresOf(LastCall("primary"))
    /\ ~retryOn(variant, cause)
    /\ pending' = pending - 1
    /\ Throw(cause)
    /\ UNCHANGED <<variant, req, locals, calls, customProfiles, sim, vr, now, lastOp, clients, gen, inflight, ui>>

RetryOk(text) ==
    /\ pc = "retry"
    /\ answers' = Append(answers, Answered("retry", text))
    /\ AfterPrimary(text)

RetryFailed(cause) ==
    /\ pc = "retry"
    /\ answers' = Append(answers, Failed("retry", cause))
    /\ cause \in FailuresOf(LastCall("retry"))
    /\ pending' = pending - 1
    /\ Throw(cause)
    /\ UNCHANGED <<variant, req, locals, calls, customProfiles, sim, vr, now, lastOp, clients, gen, inflight, ui>>

\* Mutant: the score compares the text that was sent to the backend.
BackOkScoredSent(text) ==
    /\ pc = "back"
    /\ answers' = Append(answers, Answered("back", text))
    /\ variant = "ai"
    /\ backTranslatedText' = text
    /\ pending' = pending - 1
    /\ Respond(200, ResultOf(variant, req, sourceLanguage, targetLanguage,
                             ruleTransformation, translatedText, text,
                             calculateTextSimilarity(textToTranslate, text)))
    /\ UNCHANGED <<variant, req, sourceLanguage, targetLanguage,
                   ruleTransformation, textToTranslate, translatedText,
                   firstError, calls, customProfiles, sim, vr, now, lastOp,
                   clients, gen, inflight, ui>>

\* ai.js: the back-translation returns and the result is scored locally.
BackOkScored(text) ==
    /\ pc = "back"
    /\ answers' = Append(answers, Answered("back", text))
    /\ variant = "ai"
    /\ backTranslatedText' = text
    /\ pending' = pending - 1
    /\ Respond(200, ResultOf(variant, req, sourceLanguage, targetLanguage,
                             ruleTransformation, translatedText, text,
                             calculateTextSimilarity(req.text, text)))
    /\ UNCHANGED <<variant, req, sourceLanguage, targetLanguage,
                   ruleTransformation, textToTranslate, translatedText,
                   firstError, calls, customProfiles, sim, vr, now, lastOp, clients, gen, inflight, ui>>

\* DeepL + Gemini variant: the back-translation returns and the generative
\* scorer is called.
BackOkAwaitScore(text) ==
    /\ pc = "back"
    /\ answers' = Append(answers, Answered("back", text))
    /\ variant = "dg"
    /\ backTranslatedText' = text
    /\ calls' = Append(calls, ScoreCall(req.text, text))
    /\ pending' = pending - 1 + 1
    /\ pc' = "score"
    /\ clients' = getGenAI(clients, TRUE)
    /\ UNCHANGED <<variant, req, sourceLanguage, targetLanguage,
                   ruleTransformation, textToTranslate, translatedText,
                   firstError, response, customProfiles, sim, vr, now, lastOp,
                   gen, inflight, ui>>

BackFailed(cause) ==
    /\ pc = "back"
    /\ answers' = Append(answers, Failed("back", cause))
    /\ cause \in FailuresOf(LastCall("back"))
    /\ pending' = pending - 1
    /\ Throw(cause)
    /\ UNCHANGED <<variant, req, locals, calls, customProfiles, sim, vr, now, lastOp, clients, gen, inflight, ui>>

Scored(accuracy) ==
    /\ pending' = pending - 1
    /\ Respond(200, ResultOf(variant, req, sourceLanguage, targetLanguage,
                             ruleTransformation, translatedText,
                             backTranslatedText, accuracy))
    /\ UNCHANGED <<variant, req, locals, calls, customProfiles, sim, vr, now, lastOp, clients, gen, inflight, ui>>

\* calculateAccuracyScore parsed the model's JSON answer.
ScoreOk(accuracy) ==
    /\ pc = "score"
    /\ answers' = Append(answers, Answered("score", <<>>))
    /\ Scored(accuracy)

\* calculateAccuracyScore could not parse the answer.
ScoreUnparsable ==
    /\ pc = "score"
    /\ answers' = Append(answers, Answered("score", <<"not json">>))
    /\ Scored([score |-> 75, explanation |-> "Unable to calculate precise score"])

\* Mutant: the scorer's failure reaches the outer catch.
ScoreFailedThrows(cause) ==
    /\ pc = "score"
    /\ answers' = Append(answers, Failed("score", cause))
    /\ cause \in FailuresOf(LastCall("score"))
    /\ pending' = pending - 1
    /\ Throw(cause)
    /\ UNCHANGED <<variant, req, locals, calls, customProfiles, sim, vr, now, lastOp, clients, gen, inflight, ui>>

\* calculateAccuracyScore threw; translateText catches it.
ScoreFailed(cause) ==
    /\ pc = "score"
    /\ answers' = Append(answers, Failed("score", cause))
    /\ cause \in FailuresOf(LastCall("score"))
    /\ Scored(scoreFallback)

\* The response has been sent and the handler's frame is gone; the server
\* waits for the next request.
HandlerDone ==
    /\ pc = "done"
    /\ pc' = "idle"
    /\ variant' = "ai"
    /\ req' = [text |-> <<>>, profileId |-> "natural", customRules |-> <<>>]
    /\ sourceLanguage' = ""
    /\ targetLanguage' = ""
    /\ ruleTransformation' = NoTransformation
    /\ textToTranslate' = <<>>
    /\ translatedText' = <<>>
    /\ backTranslatedText' = <<>>
    /\ calls' = <<>>
    /\ answers' = <<>>
    /\ pending' = 0
    /\ firstError' = ""
    /\ response' = NoResponse
    /\ UNCHANGED <<customProfiles, sim, vr, now, lastOp, clients, gen, inflight, ui>>

\* calculateTextSimilarity applied to one pair of texts.
Score(original, backTranslation) ==
    /\ ~sim.scored
    /\ sim' = [scored |-> TRUE, original |-> original,
               backTranslation |-> backTranslation,
               out |-> calculateTextSimilarity(original, backTranslation)]
    /\ UNCHANGED <<pc, variant, req, locals, calls, answers, pending,
                   response, customProfiles, vr, now, lastOp, clients, gen, inflight, ui>>

\* The returned score has been consumed.
ScoreReturned ==
    /\ sim.scored
    /\ sim' = NoSim
    /\ UNCHANGED <<pc, variant, req, locals, calls, answers, pending,
                   response, customProfiles, vr, now, lastOp, clients, gen, inflight, ui>>

Next ==
    \/ /\ pc = "idle"
       /\ \E v \in Variants, text \in Texts, p \in ProfileIds, r \in RuleSets :
            PostTranslateRejected(v, text, p, r)
    \/ /\ pc = "idle"
       /\ \E v \in Variants, text \in Texts, p \in ProfileIds, r \in RuleSets :
            PostTranslate(v, text, p, r)
    \/ \E content \in RuleResponses : RulesOk(content)
    \/ \E cause \in Causes : RulesFailed(cause)
    \/ \E text \in ProviderTexts : PrimaryOk(text)
    \/ \E cause \in Causes : PrimaryFailedRetry(cause)
    \/ \E cause \in Causes : PrimaryFailedFatal(cause)
    \/ \E text \in ProviderTexts : RetryOk(text)
    \/ \E cause \in Causes : RetryFailed(cause)
    \/ \E text \in ProviderTexts : BackOkScored(text)
    \/ \E text \in ProviderTexts : BackOkAwaitScore(text)
    \/ \E cause \in Causes : BackFailed(cause)
    \/ \E accuracy \in ModelScores : ScoreOk(accuracy)
    \/ ScoreUnparsable
    \/ \E cause \in Causes : ScoreFailed(cause)
    \/ HandlerDone

Spec == Init /\ [][Next]_vars

\* -------------------------------------------------- POST /api/variation
\* The three generateVariation implementations of the repository: the
\* rephrase-then-translate one the server imports, the formality-cycling
\* one of the DeepL-only service and the generative one.
Strategies == {"rephrase", "formality", "generative"}

Hints == {"prefer_less", "default", "prefer_more", NoHint}

\* A deterministic translation backend: what it answers for the forward
\* translation of one text under each formality option.
Stubs == [Hints -> ProviderTexts]

\* What the generative backend answers: a JSON object or other text.
GenerativeAnswers ==
    {[parsable |-> TRUE, translation |-> t] : t \in ProviderTexts}
      \cup {[parsable |-> FALSE, translation |-> <<>>]}

translationLanguage(originalText) ==
    IF detectLanguage(originalText) = "ko" THEN "en-US" ELSE "ko"

backToOriginal(originalText) ==
    IF detectLanguage(originalText) = "ko" THEN "ko" ELSE "en-US"

formalityOptions == <<"prefer_less", "default", "prefer_more">>

currentFormality(profileId) ==
    IF profileId = "natural" THEN "prefer_more"
    ELSE IF profileId = "direct" THEN "prefer_less"
    ELSE "default"

IsOther(profileId, f) == f # currentFormality(profileId)

\* Mutant: the profile's own formality is not filtered out.
otherFormalitiesAll(profileId) == formalityOptions

\* formalityOptions.filter(f => f !== currentFormality)
otherFormalities(profileId) ==
    SelectSeq(formalityOptions, LAMBDA f : IsOther(profileId, f))

\* Mutant: the second attempt repeats the formality of the first.
alternateFormalitySame(profileId, newFormality) == newFormality

\* otherFormalities.find(f => f !== newFormality) || 'default'
alternateFormality(profileId, newFormality) ==
    LET others == otherFormalities(profileId)
        found == {i \in 1..Len(others) : others[i] # newFormality}
    IN  IF found = {} THEN "default"
        ELSE others[CHOOSE i \in found : \A j \in found : i <= j]

\* translationLanguage === 'ko' ? { formality } : {}
forwardOptions(language, formality) ==
    IF language = "ko" THEN formality ELSE NoHint

differenceNote(formality) ==
    IF formality = "prefer_more" THEN "More formal/polite variation"
    ELSE IF formality = "prefer_less" THEN "More casual/direct variation"
    ELSE "Standard formality variation"

Difference(note, arg) == [note |-> note, arg |-> arg]

VariationResult(translation, note, arg) ==
    [status |-> 200,
     body |-> [translation |-> translation, difference |-> Difference(note, arg)]]

\* catch (error): { translation: currentTranslation,
\*                  difference: `Variation unavailable: ${error.message}` }
variationUnavailable(currentTranslation, cause) ==
    VariationResult(currentTranslation, "Variation unavailable: ", <<cause>>)

VariationCall(step, text, target, formality) ==
    [step |-> step, text |-> text, target |-> target, formality |-> formality]

\* The route reads the request and calls generateVariation, which runs up
\* to its first await.
PostVariation(strategy, originalText, currentTranslation, profileId, stub) ==
    /\ vr.pc = "idle"
    /\ vr' = [pc |-> CASE strategy = "rephrase" -> "rephrase"
                       [] strategy = "formality" -> "back"
                       [] strategy = "generative" -> "generate",
              strategy |-> strategy,
              originalText |-> originalText,
              currentTranslation |-> currentTranslation,
              profileId |-> profileId,
              stub |-> stub,
              text |-> <<>>,
              newFormality |-> NoHint,
              failed |-> "",
              calls |-> << CASE strategy = "rephrase" ->
                                VariationCall("rephrase", originalText, "", NoHint)
                             [] strategy = "formality" ->
                                VariationCall("back", currentTranslation,
                                    backToOriginal(originalText),
                                    IF backToOriginal(originalText) = "ko"
                                    THEN "prefer_less" ELSE NoHint)
                             [] strategy = "generative" ->
                                VariationCall("generate", originalText, "", NoHint) >>,
              response |-> NoResponse]
    /\ clients' = CASE strategy = "rephrase" ->
                        getDeepL(getPerplexity(clients, TRUE), TRUE)
                     [] strategy = "formality" -> getDeepL(clients, TRUE)
                     [] strategy = "generative" -> getGenAI(clients, TRUE)
    /\ UNCHANGED <<pc, variant, req, locals, calls, answers, pending,
                   response, customProfiles, sim, now, lastOp, gen, inflight, ui>>

VariationUnchanged ==
    UNCHANGED <<pc, variant, req, locals, calls, answers, pending,
                response, customProfiles, sim, now, lastOp, clients, gen, inflight, ui>>

\* ai.js: the rephrasing backend answered; the rephrased text goes to the
\* translation backend.
RephraseOk(content) ==
    /\ vr.pc = "rephrase"
    /\ LET rephrasedText == StripQuotes(Trim(content))
           language == translationLanguage(vr.originalText)
       IN  vr' = [vr EXCEPT !.pc = "translate",
                            !.text = rephrasedText,
                            !.calls = Append(@, VariationCall("translate",
                                rephrasedText, language,
                                forwardOptions(language, "default")))]
    /\ VariationUnchanged

\* ai.js: the translation of the rephrased text arrived.
TranslateOk ==
    /\ vr.pc = "translate"
    /\ LET result == vr.stub[vr.calls[Len(vr.calls)].formality]
       IN  vr' = [vr EXCEPT !.pc = "done",
                    !.response =
                        IF result = vr.currentTranslation
                        THEN VariationResult(vr.currentTranslation,
                                "Generated similar translation. Try adding custom rules for more variety.",
                                <<>>)
                        ELSE VariationResult(result, "Rephrased from: ", vr.text)]
    /\ VariationUnchanged

\* ai.js: either backend call failed inside the try block.
RephraseStrategyFailed(cause) ==
    /\ vr.pc \in {"rephrase", "translate"}
    /\ vr' = [vr EXCEPT !.pc = "done",
                        !.failed = cause,
                        !.response = variationUnavailable(vr.currentTranslation, cause)]
    /\ VariationUnchanged

\* formality cycling: the back-translation arrived; a formality other
\* than the profile's is drawn and the first forward translation is sent.
VariationBackOk(backText, newFormality) ==
    /\ vr.pc = "back"
    /\ \E i \in 1..Len(otherFormalities(vr.profileId)) :
            newFormality = otherFormalities(vr.profileId)[i]
    /\ LET language == translationLanguage(vr.originalText)
       IN  vr' = [vr EXCEPT !.pc = "forward",
                            !.text = backText,
                            !.newFormality = newFormality,
                            !.calls = Append(@, VariationCall("forward",
                                backText, language,
                                forwardOptions(language, newFormality)))]
    /\ VariationUnchanged

\* formality cycling: the first forward translation arrived.
ForwardOk ==
    /\ vr.pc = "forward"
    /\ LET newTranslation == vr.stub[vr.calls[Len(vr.calls)].formality]
           language == translationLanguage(vr.originalText)
       IN  vr' = IF newTranslation = vr.currentTranslation
                 THEN [vr EXCEPT !.pc = "alternate",
                          !.calls = Append(@, VariationCall("alternate",
                              vr.text, language,
                              forwardOptions(language,
                                  alternateFormality(vr.profileId, vr.newFormality))))]
                 ELSE [vr EXCEPT !.pc = "done",
                          !.response = VariationResult(newTranslation,
                              differenceNote(vr.newFormality), <<>>)]
    /\ VariationUnchanged

\* formality cycling: the second forward translation arrived.
AlternateOk ==
    /\ vr.pc = "alternate"
    /\ LET altResult == vr.stub[vr.calls[Len(vr.calls)].formality]
       IN  vr' = [vr EXCEPT !.pc = "done",
                    !.response =
                        IF altResult # vr.currentTranslation
                        THEN VariationResult(altResult,
                                differenceNote(alternateFormality(vr.profileId,
                                                                  vr.newFormality)),
                                <<>>)
                        ELSE VariationResult(vr.currentTranslation,
                                "This translation is already optimal. Try a different phrase.",
                                <<>>)]
    /\ VariationUnchanged

\* formality cycling: any of the translation calls failed inside the try
\* block.
FormalityStrategyFailed(cause) ==
    /\ vr.pc \in {"back", "forward", "alternate"}
    /\ vr' = [vr EXCEPT !.pc = "done",
                        !.failed = cause,
                        !.response = variationUnavailable(vr.currentTranslation, cause)]
    /\ VariationUnchanged

\* generative: the backend answered; JSON.parse succeeds or throws.
GenerateOk(answer) ==
    /\ vr.pc = "generate"
    /\ vr' = [vr EXCEPT !.pc = "done",
                    !.response =
                        IF answer.parsable
                        THEN VariationResult(answer.translation, "generated", <<>>)
                        ELSE VariationResult(vr.currentTranslation,
                                "Could not generate variation", <<>>)]
    /\ VariationUnchanged

\* generative: generateContent is awaited outside the try block, so its
\* failure rejects generateVariation and the route answers 500.
GenerateFailed(cause) ==
    /\ vr.pc = "generate"
    /\ vr' = [vr EXCEPT !.pc = "done",
                        !.failed = cause,
                        !.response = [status |-> 500, body |-> [error |-> cause]]]
    /\ VariationUnchanged

\* The response has been sent.
VariationDone ==
    /\ vr.pc = "done"
    /\ vr' = NoVariation
    /\ VariationUnchanged

VarNext ==
    \/ /\ vr.pc = "idle"
       /\ \E strategy \in Strategies, originalText \in {<<"a">>, <<"k">>},
             currentTranslation \in ProviderTexts, profileId \in ProfileIds,
             stub \in Stubs :
            PostVariation(strategy, originalText, currentTranslation, profileId, stub)
    \/ \E content \in RuleResponses : RephraseOk(content)
    \/ TranslateOk
    \/ \E cause \in Causes : RephraseStrategyFailed(cause)
    \/ \E backText \in ProviderTexts, newFormality \in Hints :
            VariationBackOk(backText, newFormality)
    \/ ForwardOk
    \/ AlternateOk
    \/ \E cause \in Causes : FormalityStrategyFailed(cause)
    \/ \E answer \in GenerativeAnswers : GenerateOk(answer)
    \/ \E cause \in Causes : GenerateFailed(cause)
    \/ VariationDone

\* The variation endpoint on its own.
VarSpec == Init /\ [][VarNext]_vars

\* -------------------------------------------------------- profile store
\* A payload without an id, or with an empty one.
NoId == ""
PayloadIds == {NoId, "natural", "custom-1"}
Names == {"", "Mine", "Other"}
Descriptions == {"", "about"}

\* req.body of POST /api/profiles; the flags are what a client may send.
Payloads ==
    {[id |-> i, name |-> n, description |-> d, isDefault |-> f, canDelete |-> ~f] :
        i \in PayloadIds, n \in Names, d \in Descriptions, f \in BOOLEAN}

\* req.params.id of DELETE /api/profiles/:id
DeleteIds == {"natural", "parent-talk", "direct", "custom-1", "custom-2", "missing"}

\* `custom-${Date.now()}`
GeneratedId(t) == <<"custom-1", "custom-2", "custom-3", "custom-4">>[t]

\* customProfiles.findIndex(p => p.id === profile.id), 0 for -1
existingIndex(stored, id) ==
    LET found == {i \in 1..Len(stored) : stored[i].id = id}
    IN  IF found = {} THEN 0 ELSE CHOOSE i \in found : \A j \in found : i <= j

\* Mutant: the flags of the payload are kept.
newProfileKeepsFlags(profile, t) ==
    [id |-> IF profile.id = NoId THEN GeneratedId(t) ELSE profile.id,
     name |-> profile.name,
     description |-> profile.description,
     isDefault |-> profile.isDefault,
     canDelete |-> profile.canDelete]

newProfile(profile, t) ==
    [id |-> IF profile.id = NoId THEN GeneratedId(t) ELSE profile.id,
     name |-> profile.name,
     description |-> profile.description,
     isDefault |-> FALSE,
     canDelete |-> TRUE]

\* customProfiles after the replace-or-push of saveProfile
savedProfiles(stored, profile, t) ==
    IF existingIndex(stored, profile.id) > 0
    THEN [stored EXCEPT ![existingIndex(stored, profile.id)] = newProfile(profile, t)]
    ELSE Append(stored, newProfile(profile, t))

HasId(id, p) == p.id = id

\* loadProfiles().filter(p => p.id !== id)
removedProfiles(stored, id) == SelectSeq(stored, LAMBDA p : ~HasId(id, p))

NoProfile == [id |-> NoId]

\* History of the store's callers: the operation before the last one.
PrevOp ==
    IF lastOp.op = "none" THEN NoOp
    ELSE [op |-> lastOp.op, id |-> lastOp.id, ok |-> lastOp.ok]

\* What the last operation was given, what it answered and what the
\* store held when it was called.
OpResult(op, id, arg, ok, error, returned) ==
    [op |-> op, id |-> id, arg |-> arg, ok |-> ok, error |-> error,
     returned |-> returned, before |-> customProfiles, prev |-> PrevOp]

ProfileUnchanged ==
    UNCHANGED <<pc, variant, req, locals, calls, answers, pending, response,
                sim, vr, clients, gen, inflight, ui>>

\* !profile.name || !profile.description
invalidProfile(profile) == profile.name = "" \/ profile.description = ""

\* Mutant: deleteProfile looks for the id among the custom profiles only.
deletableCustomOnly(id) ==
    \E i \in 1..Len(customProfiles) : customProfiles[i].id = id

\* profile.canDelete of the profile getProfileById finds
deletable(id) == getProfileById(id).canDelete

\* POST /api/profiles -> saveProfile(req.body).  saveProfilesToFile logs
\* and swallows a failed write: then the file keeps its content.
saveProfile(profile, written) ==
    /\ Len(customProfiles) < MaxProfiles
    /\ IF invalidProfile(profile)
       THEN /\ lastOp' = OpResult("save", profile.id, profile, FALSE,
                               "Profile must have a name and description", NoProfile)
            /\ UNCHANGED customProfiles
       ELSE /\ lastOp' = OpResult("save", profile.id, profile, TRUE, "",
                               newProfile(profile, now))
            /\ customProfiles' = IF written
                                 THEN savedProfiles(customProfiles, profile, now)
                                 ELSE customProfiles
    /\ UNCHANGED now
    /\ ProfileUnchanged

\* DELETE /api/profiles/:id -> deleteProfile(id)
deleteProfile(id, written) ==
    /\ IF ~HasProfile(id)
       THEN /\ lastOp' = OpResult("delete", id, NoProfile, FALSE,
                               "Profile not found", NoProfile)
            /\ UNCHANGED customProfiles
       ELSE IF ~deletable(id)
       THEN /\ lastOp' = OpResult("delete", id, NoProfile, FALSE,
                               "Cannot delete default profiles", NoProfile)
            /\ UNCHANGED customProfiles
       ELSE /\ lastOp' = OpResult("delete", id, NoProfile, TRUE, "", NoProfile)
            /\ customProfiles' = IF written
                                 THEN removedProfiles(customProfiles, id)
                                 ELSE customProfiles
    /\ UNCHANGED now
    /\ ProfileUnchanged

\* A millisecond passes.
Tick ==
    /\ now < MaxClock
    /\ now' = now + 1
    /\ UNCHANGED <<customProfiles, lastOp>>
    /\ ProfileUnchanged

ProfileNext ==
    \/ \E profile \in Payloads, written \in BOOLEAN : saveProfile(profile, written)
    \/ \E id \in DeleteIds, written \in BOOLEAN : deleteProfile(id, written)
    \/ Tick

\* The profile store on its own.
ProfileSpec == Init /\ [][ProfileNext]_vars

\* ------------------------------------------------------ client handles
\* Handlers of the services run concurrently; one step is the code a
\* handler runs between two awaits.  Only their getter calls are kept.
Handlers == {"translateText", "generateVariation", "calculateAccuracyScore"}

ClientUnchanged ==
    UNCHANGED <<pc, variant, req, locals, calls, answers, pending, response,
                customProfiles, sim, vr, now, lastOp, gen, ui>>

Without(s, i) == SubSeq(s, 1, i - 1) \o SubSeq(s, i + 1, Len(s))

\* ai.js translateText with custom rules: applyCustomRules calls
\* getPerplexity and awaits the rules backend.
EnterTranslateRules(constructed) ==
    /\ Len(inflight) < MaxRequests
    /\ clients' = getPerplexity(clients, constructed)
    /\ inflight' = IF getterThrew(clients.perplexity, constructed) THEN inflight
                   ELSE Append(inflight, [op |-> "translateText", pc |-> "rules"])
    /\ ClientUnchanged

\* ai.js translateText: applyCustomRules has returned, or there were no
\* rules; getDeepL, then the primary call is awaited.
CallGetDeepL(handlers, constructed) ==
    /\ clients' = getDeepL(clients, constructed)
    /\ inflight' = IF getterThrew(clients.deepl, constructed) THEN inflight
                   ELSE Append(handlers, [op |-> "translateText", pc |-> "primary"])
    /\ ClientUnchanged

EnterTranslate(constructed) ==
    /\ Len(inflight) < MaxRequests
    /\ CallGetDeepL(inflight, constructed)

ResumeTranslate(i, constructed) ==
    /\ i \in 1..Len(inflight)
    /\ inflight[i].pc = "rules"
    /\ CallGetDeepL(Without(inflight, i), constructed)

\* ai.js generateVariation: getPerplexity, then getDeepL, then the
\* rephrasing backend is awaited.
EnterVariation(perplexityConstructed, deeplConstructed) ==
    /\ Len(inflight) < MaxRequests
    /\ IF getterThrew(clients.perplexity, perplexityConstructed)
       THEN /\ clients' = getPerplexity(clients, perplexityConstructed)
            /\ UNCHANGED inflight
       ELSE /\ clients' = getDeepL(getPerplexity(clients, perplexityConstructed),
                                   deeplConstructed)
            /\ inflight' = IF getterThrew(clients.deepl, deeplConstructed)
                           THEN inflight
                           ELSE Append(inflight, [op |-> "generateVariation",
                                                  pc |-> "rephrase"])
    /\ ClientUnchanged

\* calculateAccuracyScore of the generative scorer: getGenAI, then the
\* model is awaited.
EnterScore(constructed) ==
    /\ Len(inflight) < MaxRequests
    /\ clients' = getGenAI(clients, constructed)
    /\ inflight' = IF getterThrew(clients.genai, constructed) THEN inflight
                   ELSE Append(inflight, [op |-> "calculateAccuracyScore",
                                          pc |-> "score"])
    /\ ClientUnchanged

\* The remaining awaits of a handler call no getter.
Finish(i) ==
    /\ i \in 1..Len(inflight)
    /\ inflight[i].pc # "rules"
    /\ inflight' = Without(inflight, i)
    /\ UNCHANGED clients
    /\ ClientUnchanged

ClientNext ==
    \/ \E constructed \in BOOLEAN : EnterTranslateRules(constructed)
    \/ \E constructed \in BOOLEAN : EnterTranslate(constructed)
    \/ \E i \in 1..MaxRequests, constructed \in BOOLEAN :
            ResumeTranslate(i, constructed)
    \/ \E p, d \in BOOLEAN : EnterVariation(p, d)
    \/ \E constructed \in BOOLEAN : EnterScore(constructed)
    \/ \E i \in 1..MaxRequests : Finish(i)

\* Concurrent handlers and the client handles they share.
ClientSpec == Init /\ [][ClientNext]_vars

\* ---------------------------------------------------- generative service
\* A response of the generative model, in chunks: "p" is prose, "o" a
\* complete JSON object carrying the fields the prompt asked for, the
\* others are single brackets.  Chunks next to each other inside an array
\* are taken as separated by commas.
ObjectChars == {"p", "o", "{", "}"}
ArrayChars == {"p", "o", "[", "]"}
ResponsesOver(chars, most) == UNION {[1..n -> chars] : n \in 0..most}
ObjectResponses == ResponsesOver(ObjectChars, MaxResponseLen)
\* An array of one object takes three chunks.
ArrayResponses == ResponsesOver(ArrayChars, MaxResponseLen + 1)
GenTexts == {<<"a">>, <<"k">>}
GenProfileIds == {"natural", "custom-1"}

Val(value) == [defined |-> TRUE, value |-> value]
Undef == [defined |-> FALSE]

\* Whether the chunks are one JSON value / a list of JSON values.
RECURSIVE IsJson(_), IsJsonList(_), JsonItems(_)
IsJson(s) ==
    \/ s = <<"o">>
    \/ s = <<"{", "}">>
    \/ /\ Len(s) >= 2
       /\ s[1] = "["
       /\ s[Len(s)] = "]"
       /\ IsJsonList(SubSeq(s, 2, Len(s) - 1))

IsJsonList(s) ==
    \/ s = <<>>
    \/ \E k \in 1..Len(s) :
          IsJson(SubSeq(s, 1, k)) /\ IsJsonList(SubSeq(s, k + 1, Len(s)))

\* JSON.parse of an element of an array.
JsonItem(s) ==
    IF s = <<"o">> THEN [kind |-> "object", fields |-> TRUE]
    ELSE IF s = <<"{", "}">> THEN [kind |-> "object", fields |-> FALSE]
    ELSE [kind |-> "array", fields |-> FALSE]

\* JSON.parse of the elements of an array.
JsonItems(s) ==
    IF s = <<>> THEN <<>>
    ELSE LET k == CHOOSE k \in 1..Len(s) :
                    IsJson(SubSeq(s, 1, k)) /\ IsJsonList(SubSeq(s, k + 1, Len(s)))
         IN  <<JsonItem(SubSeq(s, 1, k))>> \o JsonItems(SubSeq(s, k + 1, Len(s)))

\* response.match(/\{[\s\S]*\}/) or response.match(/\[[\s\S]*\]/): from the
\* first opening bracket to the last closing one; <<>> when there is none.
regexMatch(s, open, close) ==
    LET opens == {i \in 1..Len(s) : s[i] = open \/ (open = "{" /\ s[i] = "o")}
        closes == {j \in 1..Len(s) : s[j] = close \/ (close = "}" /\ s[j] = "o")}
    IN  IF opens = {} \/ closes = {} THEN <<>>
        ELSE LET i == CHOOSE i \in opens : \A i2 \in opens : i <= i2
                 j == CHOOSE j \in closes : \A j2 \in closes : j >= j2
             IN  IF j >= i THEN SubSeq(s, i, j) ELSE <<>>

\* jsonMatch ? jsonMatch[0] : response
objectSource(reply) ==
    IF regexMatch(reply, "{", "}") # <<>> THEN regexMatch(reply, "{", "}")
    ELSE reply

\* jsonMatch ? jsonMatch[0] : '[]'
arraySource(reply) ==
    IF regexMatch(reply, "[", "]") # <<>> THEN regexMatch(reply, "[", "]")
    ELSE <<"[", "]">>

\* 0.8, in hundredths
FallbackConfidence == 80

translationFallback(reply) ==
    [translation |-> Val(reply), confidence |-> Val(FallbackConfidence),
     notes |-> Val("")]

\* What JSON.parse returns for an object answering the translation prompt.
translationParsed(source) ==
    IF source = <<"o">>
    THEN [translation |-> Val(<<"k">>), confidence |-> Val(95), notes |-> Val("notes")]
    ELSE [translation |-> Undef, confidence |-> Undef, notes |-> Undef]

\* Mutant: the raw response is kept with the confidence of a parsed answer.
parseTranslationSure(reply) ==
    IF IsJson(objectSource(reply))
    THEN translationParsed(objectSource(reply))
    ELSE [translation |-> Val(reply), confidence |-> Val(100), notes |-> Val("")]

\* try { JSON.parse(jsonMatch ? jsonMatch[0] : response) } catch { ... }
parseTranslation(reply) ==
    IF IsJson(objectSource(reply))
    THEN translationParsed(objectSource(reply))
    ELSE translationFallback(reply)

\* calculateAccuracyScore, once the model has answered.
parseScore(reply) ==
    IF ~IsJson(objectSource(reply))
    THEN [score |-> Val(75), explanation |-> Val("Unable to calculate precise score")]
    ELSE IF objectSource(reply) = <<"o">>
    THEN [score |-> Val(85), explanation |-> Val("brief explanation")]
    ELSE [score |-> Undef, explanation |-> Undef]

\* generateVariation, once the model has answered.
parseVariation(reply, currentTranslation) ==
    IF ~IsJson(objectSource(reply))
    THEN [translation |-> Val(currentTranslation),
          difference |-> Val("Could not generate variation")]
    ELSE IF objectSource(reply) = <<"o">>
    THEN [translation |-> Val(<<"k">>), difference |-> Val("different")]
    ELSE [translation |-> Undef, difference |-> Undef]

Alternative(item) ==
    IF item.kind = "object" /\ item.fields
    THEN [kind |-> "object", text |-> Val(<<"k">>), nuance |-> Val("nuance")]
    ELSE [kind |-> item.kind, text |-> Undef, nuance |-> Undef]

\* getAlternatives, once the model has answered.
parseAlternatives(reply, word) ==
    IF ~IsJson(arraySource(reply))
    THEN <<[kind |-> "object", text |-> Val(word), nuance |-> Val("Original translation")]>>
    ELSE LET source == arraySource(reply)
             items == JsonItems(SubSeq(source, 2, Len(source) - 1))
         IN  [i \in 1..Len(items) |-> Alternative(items[i])]

GenUnchanged ==
    UNCHANGED <<pc, variant, req, locals, calls, answers, pending, response,
                customProfiles, sim, vr, now, lastOp, inflight, ui>>

Returned(value) == [threw |-> FALSE, value |-> value]
Thrown(cause) == [threw |-> TRUE, error |-> cause]

\* translateText of the generative service, up to its first generateContent.
GenTranslate(text, profileId) ==
    /\ gen.pc = "idle"
    /\ gen' = [pc |-> "main", op |-> "translateText", text |-> text,
               profileId |-> profileId, currentTranslation |-> <<>>,
               responses |-> <<>>, mainTranslation |-> translationFallback(<<>>),
               reTranslation |-> translationFallback(<<>>)]
    /\ clients' = getGenAI(clients, TRUE)
    /\ GenUnchanged

\* The model answered the translation prompt.
MainAnswered(reply) ==
    /\ gen.pc = "main"
    /\ gen' = [gen EXCEPT !.pc = "re",
                          !.responses = Append(@, reply),
                          !.mainTranslation = parseTranslation(reply)]
    /\ UNCHANGED clients
    /\ GenUnchanged

\* The model answered the re-translation prompt; calculateAccuracyScore
\* runs up to its generateContent.
ReAnswered(reply) ==
    /\ gen.pc = "re"
    /\ gen' = [gen EXCEPT !.pc = "score",
                          !.responses = Append(@, reply),
                          !.reTranslation = parseTranslation(reply)]
    /\ clients' = getGenAI(clients, TRUE)
    /\ GenUnchanged

\* The TranslationResult of the generative translateText.
GenResult(g, accuracy) ==
    [original |-> g.text,
     sourceLanguage |-> detectLanguage(g.text),
     targetLanguage |-> IF detectLanguage(g.text) = "ko" THEN "en" ELSE "ko",
     translation |-> g.mainTranslation.translation,
     translationConfidence |-> g.mainTranslation.confidence,
     translationNotes |-> g.mainTranslation.notes,
     reTranslation |-> g.reTranslation.translation,
     reTranslationNotes |-> g.reTranslation.notes,
     accuracyScore |-> accuracy,
     profileUsed |-> IF HasProfile(g.profileId)
                     THEN getProfileById(g.profileId).name
                     ELSE DEFAULT_PROFILES[1].name]

\* The model answered the scoring prompt; translateText returns.
ScoreAnswered(reply) ==
    /\ gen.pc = "score"
    /\ gen' = [pc |-> "done", op |-> gen.op,
               responses |-> Append(gen.responses, reply),
               currentTranslation |-> gen.currentTranslation,
               text |-> gen.text,
               out |-> Returned(GenResult(gen, parseScore(reply)))]
    /\ UNCHANGED clients
    /\ GenUnchanged

\* getAlternatives of the generative service, up to its generateContent.
GenAlternatives(word) ==
    /\ gen.pc = "idle"
    /\ gen' = [pc |-> "alternatives", op |-> "getAlternatives", text |-> word,
               currentTranslation |-> <<>>, responses |-> <<>>]
    /\ clients' = getGenAI(clients, TRUE)
    /\ GenUnchanged

AlternativesAnswered(reply) ==
    /\ gen.pc = "alternatives"
    /\ gen' = [pc |-> "done", op |-> gen.op,
               responses |-> <<reply>>,
               currentTranslation |-> gen.currentTranslation,
               text |-> gen.text,
               out |-> Returned(parseAlternatives(reply, gen.text))]
    /\ UNCHANGED clients
    /\ GenUnchanged

\* generateVariation of the generative service, up to its generateContent.
GenVariation(originalText, currentTranslation) ==
    /\ gen.pc = "idle"
    /\ gen' = [pc |-> "variation", op |-> "generateVariation",
               text |-> originalText, currentTranslation |-> currentTranslation,
               responses |-> <<>>]
    /\ clients' = getGenAI(clients, TRUE)
    /\ GenUnchanged

GenVariationAnswered(reply) ==
    /\ gen.pc = "variation"
    /\ gen' = [pc |-> "done", op |-> gen.op,
               responses |-> <<reply>>,
               currentTranslation |-> gen.currentTranslation,
               text |-> gen.text,
               out |-> Returned(parseVariation(reply, gen.currentTranslation))]
    /\ UNCHANGED clients
    /\ GenUnchanged

\* generateContent rejected: no function of the service catches it.
GenerateContentFailed(cause) ==
    /\ gen.pc \in {"main", "re", "score", "alternatives", "variation"}
    /\ gen' = [pc |-> "done", op |-> gen.op,
               responses |-> gen.responses,
               currentTranslation |-> gen.currentTranslation,
               text |-> gen.text,
               out |-> Thrown(cause)]
    /\ UNCHANGED clients
    /\ GenUnchanged

\* The caller has the outcome.
GenReturned ==
    /\ gen.pc = "done"
    /\ gen' = NoGen
    /\ UNCHANGED clients
    /\ GenUnchanged

GenNext ==
    \/ \E text \in GenTexts, p \in GenProfileIds : GenTranslate(text, p)
    \/ \E reply \in ObjectResponses : MainAnswered(reply)
    \/ \E reply \in ObjectResponses : ReAnswered(reply)
    \/ \E reply \in ObjectResponses : ScoreAnswered(reply)
    \/ \E word \in GenTexts : GenAlternatives(word)
    \/ \E reply \in ArrayResponses : AlternativesAnswered(reply)
    \/ \E text \in GenTexts, current \in ProviderTexts : GenVariation(text, current)
    \/ \E reply \in ObjectResponses : GenVariationAnswered(reply)
    \/ GenerateContentFailed(QuotaExceeded)
    \/ GenReturned

\* The generative-only service.
GenSpec == Init /\ [][GenNext]_vars

\* ------------------------------------------------------------ the page
\* The browser runs one handler at a time; timers and responses arrive in
\* any order.  The fields issued, lastTranslate, lastInput, firedSinceInput,
\* cancelled, resolved and cleared record the history of the page and are
\* read by no handler.
PageTexts == {<<>>, <<" ">>, <<"a">>, <<"k">>}
PageProfiles == {"natural", "direct"}

PageUnchanged ==
    UNCHANGED <<pc, variant, req, locals, calls, answers, pending, response,
                customProfiles, sim, vr, now, lastOp, clients, gen, inflight>>

\* clearTranslation()
clearTranslation(page) ==
    [page EXCEPT !.currentTranslation = NoTranslation,
                 !.translationOutput = "placeholder",
                 !.copyDisabled = TRUE,
                 !.variationDisabled = TRUE]

\* Page translateText(text) up to its await: showLoading, api.translate.
startTranslate(page, text, source) ==
    [page EXCEPT !.translationOutput = "loading",
                 !.issued = @ + 1,
                 !.lastTranslate = page.issued + 1,
                 !.requests = @ \cup {[seq |-> page.issued + 1,
                                        kind |-> "translate",
                                        source |-> source,
                                        text |-> text,
                                        profile |-> page.selectedProfile,
                                        typed |-> page.lastInput]}]

\* Mutant: the previous timer is left running.
clearTimeoutNone(timers, id) == timers

\* clearTimeout(state.debounceTimer)
clearTimeout(timers, id) == {t \in timers : t.id # id}

\* The input listener.
Input(text) ==
    /\ Trim(text) # <<>> => ui.debounceTimer < MaxTimers
    /\ LET page == [ui EXCEPT !.inputText = text,
                              !.lastInput = text,
                              !.firedSinceInput = 0,
                              !.cancelled =
                                  IF \E t \in ui.timers : t.id = ui.debounceTimer
                                  THEN @ + 1 ELSE @,
                              !.timers = clearTimeout(@, ui.debounceTimer)]
       IN  ui' = IF Trim(text) # <<>>
                 THEN [page EXCEPT !.debounceTimer = ui.debounceTimer + 1,
                                   !.timers = @ \cup {[id |-> ui.debounceTimer + 1,
                                                       text |-> text]},
                                   !.cleared = FALSE]
                 ELSE [clearTranslation(page) EXCEPT !.cleared = TRUE]
    /\ PageUnchanged

\* A debounce timer fires: translateText(text) with the text it captured.
TimerFires(timer) ==
    /\ timer \in ui.timers
    /\ ui.issued < MaxIssued
    /\ ui' = [startTranslate([ui EXCEPT !.timers = @ \ {timer}],
                             timer.text, "debounce")
                 EXCEPT !.firedSinceInput = @ + 1]
    /\ PageUnchanged

\* The change listener of the profile select.
ProfileChange(profile) ==
    /\ ui.issued < MaxIssued
    /\ profile # ui.selectedProfile
    /\ LET page == [ui EXCEPT !.selectedProfile = profile]
       IN  ui' = IF Trim(ui.inputText) # <<>>
                 THEN startTranslate(page, Trim(ui.inputText), "profile")
                 ELSE page
    /\ PageUnchanged

\* The click listener of the Clear button.
ClearClick ==
    /\ ui' = [clearTranslation([ui EXCEPT !.inputText = <<>>])
                 EXCEPT !.cleared = TRUE]
    /\ PageUnchanged

\* The result the server sends for a translate request.
ResultFor(request) ==
    [present |-> TRUE, original |-> request.text, seq |-> request.seq,
     varied |-> FALSE]

\* api.translate resolved: translateText continues after its await.
TranslateResolved(request) ==
    /\ request \in ui.requests
    /\ request.kind = "translate"
    /\ ui' = [ui EXCEPT !.requests = @ \ {request},
                        !.currentTranslation = ResultFor(request),
                        !.resolved = @ \cup {request.seq},
                        !.translationOutput = "translation",
                        !.copyDisabled = FALSE,
                        !.variationDisabled = FALSE]
    /\ PageUnchanged

\* api.translate rejected: the catch of translateText shows the error.
TranslateRejected(request) ==
    /\ request \in ui.requests
    /\ request.kind = "translate"
    /\ ui' = [ui EXCEPT !.requests = @ \ {request},
                        !.translationOutput = "error"]
    /\ PageUnchanged

\* The click listener of the variation button: generateNewVariation up to
\* its first await.  A disabled button sends no click.
VariationClick ==
    /\ ~ui.variationDisabled
    /\ ui.currentTranslation.present
    /\ ui.issued < MaxIssued
    /\ ui' = [ui EXCEPT !.translationOutput = "loading",
                        !.issued = @ + 1,
                        !.requests = @ \cup {[seq |-> ui.issued + 1,
                                               kind |-> "variation",
                                               source |-> "click",
                                               text |-> ui.currentTranslation.original,
                                               profile |-> ui.selectedProfile,
                                               typed |-> ui.lastInput]}]
    /\ PageUnchanged

\* api.generateVariation resolved.  With state.currentTranslation null the
\* assignment throws and the catch shows a note; otherwise the translation
\* is replaced and revalidateTranslation awaits a further translate call.
VariationResolved(request) ==
    /\ request \in ui.requests
    /\ request.kind = "variation"
    /\ ui' = IF ~ui.currentTranslation.present
             THEN [ui EXCEPT !.requests = @ \ {request}]
             ELSE [ui EXCEPT !.requests = (@ \ {request}) \cup
                                  {[seq |-> request.seq, kind |-> "revalidate",
                                    source |-> "variation",
                                    text |-> ui.currentTranslation.original,
                                    profile |-> "direct",
                                    typed |-> request.typed]},
                             !.currentTranslation =
                                  [@ EXCEPT !.varied = TRUE],
                             !.translationOutput = "translation"]
    /\ PageUnchanged

\* api.generateVariation rejected: the catch shows a note.
VariationRejected(request) ==
    /\ request \in ui.requests
    /\ request.kind = "variation"
    /\ ui' = [ui EXCEPT !.requests = @ \ {request}]
    /\ PageUnchanged

\* The translate call of revalidateTranslation settled: only the
\* re-translation panel is written.
RevalidateSettled(request) ==
    /\ request \in ui.requests
    /\ request.kind = "revalidate"
    /\ ui' = [ui EXCEPT !.requests = @ \ {request}]
    /\ PageUnchanged

PageNext ==
    \/ \E text \in PageTexts : Input(text)
    \/ \E timer \in ui.timers : TimerFires(timer)
    \/ \E profile \in PageProfiles : ProfileChange(profile)
    \/ ClearClick
    \/ \E request \in ui.requests : TranslateResolved(request)
    \/ \E request \in ui.requests : TranslateRejected(request)
    \/ VariationClick
    \/ \E request \in ui.requests : VariationResolved(request)
    \/ \E request \in ui.requests : VariationRejected(request)
    \/ \E request \in ui.requests : RevalidateSettled(request)

\* The page of the browser.
PageSpec == Init /\ [][PageNext]_vars

SimNext ==
    \/ /\ ~sim.scored
       /\ \E original \in SimTexts, backTranslation \in SimTexts :
            Score(original, backTranslation)
    \/ ScoreReturned

\* The similarity scorer on its own, over every pair of texts.
SimSpec == Init /\ [][SimNext]_vars

\* ================================================================ claims
Accepted == pc # "idle" /\ ~(pc = "done" /\ response.status = 400)

CallsOf(step) == {i \in 1..Len(calls) : calls[i].step = step}

\* C1: for every text with a non-whitespace character, detectLanguage
\* answers 'ko' exactly when (Korean characters) / (non-whitespace
\* characters) > 0.3, and 'en' otherwise; a text of Hangul syllables only is
\* 'ko' whatever its length.
C1_DetectByRatio ==
    Accepted =>
        sourceLanguage =
            IF 10 * CountIf(req.text, Korean) > 3 * totalChars(req.text)
            THEN "ko" ELSE "en"

\* The index of a failed answer that ends translateText: a failed retry, a
\* failed back-translation, or a failed first attempt that is not retried.
IsFatal(i) ==
    /\ ~answers[i].ok
    /\ \/ answers[i].step \in {"retry", "back"}
       \/ answers[i].step = "primary" /\ CallsOf("retry") = {}

\* C2: when the primary translation (after its fallback) or the
\* back-translation fails, translate throws an error whose message carries
\* the backend's cause, returns no result, and issues no later call.
C2_FatalFailurePropagates ==
    \A i \in 1..Len(answers) :
        IsFatal(i) =>
            /\ pc = "done"
            /\ response.status = 500
            /\ response.body.error[2] = answers[i].cause
            /\ Len(calls) = i
            /\ (answers[i].step # "back" => CallsOf("back") = {})
            /\ CallsOf("score") = {}

C2_Witness ==
    /\ variant = "ai"
    /\ pc = "done"
    /\ Len(answers) = 2
    /\ answers[1].ok /\ answers[1].step = "primary"
    /\ ~answers[2].ok /\ answers[2].step = "back"
    /\ response.status = 500
    /\ response.body.error = <<"Translation Error: ", QuotaExceeded>>

RequestedHint == formalityOf(variant, req.profileId)

C4_FormalityRejectionRecovered ==
    \A i \in 1..Len(answers) :
        (~answers[i].ok /\ answers[i].cause = FormalityRejected) =>
            /\ Len(calls) > i
            /\ calls[i + 1].text = calls[i].text
            /\ calls[i + 1].target = calls[i].target
            /\ calls[i + 1].formality = NoHint

\* The language a DeepL target code names.
LanguageOf(target) == IF target = "ko" THEN "ko" ELSE "en"

\* C5: the back-translation call translates exactly the text the primary
\* translation produced, into the detected source language of the request.
C5_BackTranslatesIntoSource ==
    \A i \in CallsOf("back") :
        /\ i > 1
        /\ answers[i - 1].ok
        /\ answers[i - 1].step \in {"primary", "retry"}
        /\ calls[i].text = answers[i - 1].text
        /\ LanguageOf(calls[i].target) = sourceLanguage

WhitespaceOnly(text) == \A i \in 1..Len(text) : text[i] \in Whitespace

\* C7: a request whose text is empty or whitespace-only is rejected with a
\* validation error before any backend call is issued.
C7_EmptyTextRejected ==
    (pc # "idle" /\ WhitespaceOnly(req.text)) =>
        /\ pc = "done"
        /\ response.status = 400
        /\ calls = <<>>
        /\ answers = <<>>

C7_Witness ==
    /\ pc = "done"
    /\ req.text = <<" ", " ">>
    /\ response.status = 400
    /\ calls = <<>>

\* C8: in every returned result sourceLanguage and targetLanguage are 'ko'
\* or 'en', targetLanguage is the opposite of sourceLanguage and never a
\* regional code, although the backend is called with one.
C8_ResultLanguages ==
    (pc = "done" /\ response.status = 200) =>
        /\ response.body.sourceLanguage \in {"ko", "en"}
        /\ response.body.targetLanguage \in {"ko", "en"}
        /\ response.body.targetLanguage # response.body.sourceLanguage

C8_Witness ==
    /\ pc = "done"
    /\ response.status = 200
    /\ response.body.sourceLanguage = "ko"
    /\ response.body.targetLanguage = "en"
    /\ \E i \in CallsOf("primary") : calls[i].target = "en-US"

StepRank(step) ==
    CASE step = "rules" -> 1
      [] step = "primary" -> 2
      [] step = "retry" -> 3
      [] step = "back" -> 4
      [] step = "score" -> 5

\* C9: within one request the backend calls are issued one at a time, in
\* the order rule transformation (only with custom rules) -> primary
\* translation -> back-translation -> scoring; a call starts only when the
\* previous one has been answered.
C9_SequentialCalls ==
    /\ pending <= 1
    /\ Len(calls) <= Len(answers) + 1
    /\ \A i, j \in 1..Len(calls) :
          i < j => StepRank(calls[i].step) < StepRank(calls[j].step)
    /\ \A i \in 1..Len(answers) : answers[i].step = calls[i].step
    /\ (CallsOf("rules") # {} => req.customRules # <<>>)
    /\ (variant = "ai" /\ req.customRules # <<>> /\ calls # <<>>) =>
            calls[1].step = "rules"
    /\ (calls # <<>> /\ calls[1].step # "rules") => calls[1].step = "primary"
    /\ \A i \in CallsOf("back") : calls[i - 1].step \in {"primary", "retry"}
    /\ (pc = "done" /\ response.status = 200) =>
            /\ Len(answers) = Len(calls)
            /\ \E i \in CallsOf("back") : answers[i].ok

C9_Witness ==
    /\ variant = "ai"
    /\ pc = "done"
    /\ response.status = 200
    /\ req.customRules # <<>>
    /\ Len(calls) = 4
    /\ calls[1].step = "rules" /\ calls[2].step = "primary"
    /\ calls[3].step = "retry" /\ calls[4].step = "back"

C11_RulesFailureNonFatal ==
    \A i \in 1..Len(answers) :
        (answers[i].step = "rules" /\ ~answers[i].ok) =>
            /\ ruleTransformation.present
            /\ ruleTransformation.transformedText = req.text
            /\ ruleTransformation.appliedRules = <<>>
            /\ ruleTransformation.error = answers[i].cause
            /\ Len(calls) > i
            /\ calls[i + 1].step = "primary"
            /\ calls[i + 1].text = req.text
            /\ (pc = "done" /\ answers[Len(answers)].ok) =>
                    /\ response.status = 200
                    /\ response.body.original = req.text
                    /\ response.body.transformedText = Null
            /\ (pc = "done" /\ response.status # 200) =>
                    /\ Len(answers) > i
                    /\ ~answers[Len(answers)].ok

C11_Witness ==
    /\ pc = "done"
    /\ response.status = 200
    /\ Len(answers) = 3
    /\ answers[1] = Failed("rules", QuotaExceeded)
    /\ calls[2].text = req.text


BuiltInIds == {"natural", "parent-talk", "direct"}

\* The policy table of profile id -> formality dial.
PolicyHint(profileId) ==
    CASE profileId = "natural" -> "prefer_more"
      [] profileId = "parent-talk" -> "default"
      [] profileId = "direct" -> "prefer_less"

\* C12: for every request with a built-in profile id the primary
\* translation call carries the formality hint of the fixed table
\* natural -> prefer_more, parent-talk -> default, direct -> prefer_less.
C12_BuiltInFormalityTable ==
    req.profileId \in BuiltInIds =>
        \A i \in CallsOf("primary") : calls[i].formality = PolicyHint(req.profileId)

\* C13: a request whose profileId matches no built-in or custom profile
\* behaves like the same request with profileId 'natural': same style
\* parameter sent to the backend and same profileUsed in the result.
C13_UnknownProfileIsNatural ==
    (Accepted /\ ~HasProfile(req.profileId)) =>
        /\ \A i \in CallsOf("primary") :
              calls[i].formality =
                  primaryOptions(variant, calls[i].target,
                                 formalityOf(variant, "natural"))
        /\ (pc = "done" /\ response.status = 200) =>
              response.body.profileUsed = "Natural"


\* ------------------------------------------------- similarity scorer

\* The token lists the scorer works on.
SimOriginalTokens == tokenize(sim.original)
SimBackTokens == tokenize(sim.backTranslation)

TokenCount(tokens, t) == Cardinality({i \in 1..Len(tokens) : tokens[i] = t})

SameTokenBag(s, t) ==
    \A x \in Range(s) \cup Range(t) : TokenCount(s, x) = TokenCount(t, x)

\* C14: for every pair of texts the returned score is an integer
\* between 0 and 100.
C14_ScoreInRange ==
    sim.scored => sim.out.score \in 0..100

\* A pair with tokens on both sides whose score lies strictly inside the
\* range.
C14_Witness ==
    /\ sim.scored
    /\ Len(SimOriginalTokens) = 1
    /\ Len(SimBackTokens) = 2
    /\ sim.out.score = 85

\* C15: two texts with the same multiset of normalized tokens and at
\* least one token score 100 with 'Excellent semantic preservation'.
C15_SameTokensScoreFull ==
    (/\ sim.scored
     /\ Len(SimOriginalTokens) > 0
     /\ SameTokenBag(SimOriginalTokens, SimBackTokens)) =>
        sim.out = [score |-> 100,
                   explanation |-> "Excellent semantic preservation"]

\* Same tokens in another order and another letter case.
C15_Witness ==
    /\ sim.scored
    /\ sim.original = <<"A", " ", "b">>
    /\ sim.backTranslation = <<"b", " ", "a">>
    /\ sim.out.score = 100

\* C16: two texts with tokens on both sides and no token in common score
\* round(30 * min / max) of their token counts, 30 when the counts are
\* equal, with 'Translation may have significant interpretation'.
C16_DisjointScore ==
    LET n == Len(SimOriginalTokens)
        m == Len(SimBackTokens)
    IN  (/\ sim.scored
         /\ n > 0
         /\ m > 0
         /\ Range(SimOriginalTokens) \cap Range(SimBackTokens) = {}) =>
            /\ sim.out.score = RoundDiv(30 * Min2(n, m), Max2(n, m))
            /\ n = m => sim.out.score = 30
            /\ sim.out.explanation =
                  "Translation may have significant interpretation"

\* C17: when either text has no token after normalization the result is
\* exactly {score: 0, explanation: 'Unable to compare texts'}.
C17_NoTokensUnable ==
    (sim.scored /\ (Len(SimOriginalTokens) = 0 \/ Len(SimBackTokens) = 0)) =>
        sim.out = [score |-> 0, explanation |-> "Unable to compare texts"]

\* One text is made only of stripped characters, the other has a token.
C17_Witness ==
    /\ sim.scored
    /\ sim.original = <<"!", " ", "!">>
    /\ Len(SimBackTokens) > 0
    /\ sim.out.explanation = "Unable to compare texts"

\* C18: with tokens on both sides the explanation is fixed by the
\* returned score: excellent iff >= 85, good iff 70..84, moderate iff
\* 50..69, significant interpretation iff < 50.
C18_ExplanationBands ==
    (sim.scored /\ Len(SimOriginalTokens) > 0 /\ Len(SimBackTokens) > 0) =>
        LET score == sim.out.score
            explanation == sim.out.explanation
        IN  /\ explanation = "Excellent semantic preservation" <=> score >= 85
            /\ explanation = "Good meaning retention with minor variations"
                  <=> (70 <= score /\ score < 85)
            /\ explanation = "Moderate similarity - some nuances may differ"
                  <=> (50 <= score /\ score < 70)
            /\ explanation = "Translation may have significant interpretation"
                  <=> score < 50

\* A score on the lower edge of a band.
C18_Witness ==
    /\ sim.scored
    /\ Len(SimOriginalTokens) > 0
    /\ Len(SimBackTokens) > 0
    /\ sim.out.score = 50
    /\ sim.out.explanation = "Moderate similarity - some nuances may differ"


\* ------------------------------------------------------ generateVariation

\* C19: whenever a backend call of generateVariation fails, in any
\* strategy, the caller still gets a result: {translation:
\* currentTranslation, difference: 'Variation unavailable: <cause>'}.
C19_VariationFailureReported ==
    (vr.pc = "done" /\ vr.failed # "") =>
        /\ vr.response.status = 200
        /\ vr.response = variationUnavailable(vr.currentTranslation, vr.failed)

\* Some formality other than the profile's translates to a text that is
\* not the current translation.
DistinctAlternativeExists ==
    \E i \in 1..Len(otherFormalities(vr.profileId)) :
        vr.stub[otherFormalities(vr.profileId)[i]] # vr.currentTranslation

FormalityVariationDone ==
    /\ vr.pc = "done"
    /\ vr.strategy = "formality"
    /\ vr.failed = ""

ForwardCalls == {i \in 1..Len(vr.calls) : vr.calls[i].step \in {"forward", "alternate"}}

FormalityVariation == vr.pc # "idle" /\ vr.strategy = "formality"

\* The attempt structure both statements of C21 share: the second forward
\* call follows a first one that returned currentTranslation, there are at
\* most two, and two equal results end with the 'already optimal' note.
AttemptStructure ==
    /\ Cardinality(ForwardCalls) <= 2
    /\ \A i \in ForwardCalls :
          vr.calls[i].step = "alternate" =>
              /\ i - 1 \in ForwardCalls
              /\ vr.calls[i - 1].step = "forward"
              /\ vr.stub[vr.calls[i - 1].formality] = vr.currentTranslation
    /\ (/\ vr.pc = "done"
        /\ vr.failed = ""
        /\ Cardinality(ForwardCalls) = 2
        /\ vr.stub[vr.calls[Len(vr.calls)].formality] = vr.currentTranslation) =>
            vr.response =
                VariationResult(vr.currentTranslation,
                    "This translation is already optimal. Try a different phrase.",
                    <<>>)

\* The level a forward call at position i must carry: not the profile's,
\* and for the second call not the first call's either.
LevelAllowed(i) ==
    /\ vr.calls[i].formality \in Range(formalityOptions)
    /\ vr.calls[i].formality # currentFormality(vr.profileId)
    /\ vr.calls[i].step = "alternate" =>
            vr.calls[i].formality # vr.calls[i - 1].formality

StoredIn(stored, id) == \E i \in 1..Len(stored) : stored[i].id = id

BuiltIn(id) == \E i \in 1..Len(DEFAULT_PROFILES) : DEFAULT_PROFILES[i].id = id

\* C22: after any saves and deletes no two profiles returned by getProfiles
\* share an id, whether the saved payload carried the id of a built-in
\* profile or had no id and received a generated one.
C22_UniqueIds ==
    \A i, j \in 1..Len(getProfiles) :
        i # j => getProfiles[i].id # getProfiles[j].id

\* C23: after any saves and deletes getProfileById still returns each of
\* the three built-in profiles with its fields unchanged, and deleteProfile
\* on a built-in id throws 'Cannot delete default profiles' and leaves the
\* store as it was.
C23_BuiltInsProtected ==
    /\ \A i \in 1..Len(DEFAULT_PROFILES) :
           getProfileById(DEFAULT_PROFILES[i].id) = DEFAULT_PROFILES[i]
    /\ (lastOp.op = "delete" /\ BuiltIn(lastOp.id)) =>
           /\ ~lastOp.ok
           /\ lastOp.error = "Cannot delete default profiles"
           /\ customProfiles = lastOp.before

\* deleteProfile was called with a built-in id while a custom profile
\* with that id was stored.
C23_Witness ==
    /\ lastOp.op = "delete"
    /\ lastOp.id = "natural"
    /\ StoredIn(lastOp.before, "natural")
    /\ getProfileById("natural").isDefault

\* C24: deleteProfile on an id that is neither built-in nor stored throws
\* 'Profile not found' and leaves the store unchanged; deleting the same
\* custom id twice in a row succeeds once and throws 'Profile not found'
\* the second time.
C24_DeleteMissing ==
    /\ (lastOp.op = "delete" /\ ~BuiltIn(lastOp.id)
            /\ ~StoredIn(lastOp.before, lastOp.id)) =>
           /\ ~lastOp.ok
           /\ lastOp.error = "Profile not found"
           /\ customProfiles = lastOp.before
    /\ (lastOp.op = "delete"
            /\ lastOp.prev = [op |-> "delete", id |-> lastOp.id, ok |-> TRUE]) =>
           /\ ~lastOp.ok
           /\ lastOp.error = "Profile not found"

\* C25: every custom profile is deletable: deleteProfile with the id of a
\* stored custom profile succeeds and afterwards no custom profile with
\* that id is stored.
C25_CustomDeletable ==
    (lastOp.op = "delete" /\ StoredIn(lastOp.before, lastOp.id)) =>
        /\ lastOp.ok
        /\ ~StoredIn(customProfiles, lastOp.id)

\* C26: saveProfile with an empty or missing name or description throws
\* and leaves the store unchanged; a successful saveProfile returns a
\* profile with a non-empty id (the payload's, or a generated one), with
\* isDefault false and canDelete true whatever flags the payload carried.
C26_SaveValidated ==
    lastOp.op = "save" =>
        IF lastOp.arg.name = "" \/ lastOp.arg.description = ""
        THEN /\ ~lastOp.ok
             /\ lastOp.error = "Profile must have a name and description"
             /\ customProfiles = lastOp.before
        ELSE /\ lastOp.ok
             /\ lastOp.returned.id # NoId
             /\ IF lastOp.arg.id = NoId
                THEN lastOp.returned.id \in {GeneratedId(t) : t \in 1..now}
                ELSE lastOp.returned.id = lastOp.arg.id
             /\ lastOp.returned.isDefault = FALSE
             /\ lastOp.returned.canDelete = TRUE

\* A payload without id that claims to be a built-in profile was saved.
C26_Witness ==
    /\ lastOp.op = "save"
    /\ lastOp.ok
    /\ lastOp.arg.id = NoId
    /\ lastOp.arg.isDefault
    /\ ~lastOp.arg.canDelete

\* A payload with a name and no description was rejected while the store
\* held a profile.
C26_RejectedWitness ==
    /\ lastOp.op = "save"
    /\ ~lastOp.ok
    /\ lastOp.arg.name # ""
    /\ Len(customProfiles) > 0

\* ------------------------------------------------- client handle claims
ClientNames == {"deepl", "perplexity", "genai"}

\* C29: for any interleaving of concurrent handlers each client handle is
\* constructed at most once, only once a getter has been called, and once
\* set it stays the object of that first construction (never reset to
\* null, never replaced).
C29_ClientsConstructedOnce ==
    \A name \in ClientNames :
        /\ clients[name].built <= 1
        /\ clients[name].built = 0 => clients[name].handle = 0
        /\ clients[name].built >= 1 =>
              clients[name].handle = 1 /\ clients[name].used

\* Two translateText handlers are awaiting the rules backend at once, both
\* having called getPerplexity, while a third handler is in flight.
C29_Witness ==
    /\ Len(inflight) = MaxRequests
    /\ \E i, j \in 1..Len(inflight) :
          i # j /\ inflight[i].pc = "rules" /\ inflight[j].pc = "rules"
    /\ clients.perplexity.built = 1
    /\ clients.deepl.built = 1

\* ----------------------------------------------- generative parse claims
\* The reply holds no JSON object that JSON.parse accepts.
NoJsonObject(reply) == ~IsJson(objectSource(reply))

\* The reply holds no JSON array that JSON.parse accepts.
NoJsonArray(reply) ==
    regexMatch(reply, "[", "]") = <<>> \/ ~IsJson(regexMatch(reply, "[", "]"))

GenReturnedValue(op) == gen.pc = "done" /\ gen.op = op /\ ~gen.out.threw

\* Replies a function of the generative service awaits before it returns.
RepliesOf(op) == IF op = "translateText" THEN 3 ELSE 1

\* C27: a generative reply that cannot be parsed as JSON never makes
\* translate, score or generateVariation throw (they throw only when a
\* generateContent call was rejected): translate takes the raw reply as
\* the translation with confidence 0.8 and empty notes, score returns
\* {75, 'Unable to calculate precise score'}, generateVariation returns
\* {currentTranslation, 'Could not generate variation'}.
C27_ParseFailureRecovered ==
    /\ (gen.pc = "done" /\ gen.out.threw) =>
           Len(gen.responses) < RepliesOf(gen.op)
    /\ GenReturnedValue("translateText") =>
           /\ NoJsonObject(gen.responses[1]) =>
                 /\ gen.out.value.translation = Val(gen.responses[1])
                 /\ gen.out.value.translationConfidence = Val(80)
                 /\ gen.out.value.translationNotes = Val("")
           /\ NoJsonObject(gen.responses[2]) =>
                 /\ gen.out.value.reTranslation = Val(gen.responses[2])
                 /\ gen.out.value.reTranslationNotes = Val("")
           /\ NoJsonObject(gen.responses[3]) =>
                 gen.out.value.accuracyScore =
                     [score |-> Val(75),
                      explanation |-> Val("Unable to calculate precise score")]
    /\ (GenReturnedValue("generateVariation") /\ NoJsonObject(gen.responses[1])) =>
           gen.out.value = [translation |-> Val(gen.currentTranslation),
                            difference |-> Val("Could not generate variation")]

\* translateText returned after three replies none of which was JSON.
C27_Witness ==
    /\ GenReturnedValue("translateText")
    /\ \A i \in 1..3 : NoJsonObject(gen.responses[i])
    /\ gen.responses[1] = <<"p", "{">>
    /\ gen.responses[3] = <<"{", "o">>

\* generateVariation returned after a reply that was not JSON.
C27_VariationWitness ==
    /\ GenReturnedValue("generateVariation")
    /\ NoJsonObject(gen.responses[1])
    /\ gen.currentTranslation = <<"k", " ", "k">>

\* C28: when the generative reply cannot be parsed into an array of
\* alternatives, also when it holds no JSON array at all, getAlternatives
\* returns a list of one element whose text is the original word.
C28_AlternativesFallback ==
    (GenReturnedValue("getAlternatives") /\ NoJsonArray(gen.responses[1])) =>
        /\ Len(gen.out.value) = 1
        /\ gen.out.value[1].text = Val(gen.text)

\* ----------------------------------------------- text of the primary call
\* What the rules backend answered, trimmed and stripped of wrapping quotes.
RuleTransformed(content) == Trim(StripQuotes(Trim(content)))

RulesAnswers == {k \in 1..Len(answers) : answers[k].step = "rules"}

\* The text the claim expects the translation backend to be given.
ExpectedPrimaryText ==
    IF /\ req.customRules # <<>>
       /\ \E k \in RulesAnswers :
             answers[k].ok /\ RuleTransformed(answers[k].text) # <<>>
    THEN RuleTransformed(answers[CHOOSE k \in RulesAnswers : TRUE].text)
    ELSE req.text

\* C30: the primary translation call (and its retry) is given the
\* rule-transformed text when customRules is non-empty and the
\* transformation returned a non-empty text, and the request text in every
\* other case; with empty customRules the rules backend is not called.
C30_PrimaryText ==
    /\ \A i \in 1..Len(calls) :
          calls[i].step \in {"primary", "retry"} =>
              calls[i].text = ExpectedPrimaryText
    /\ req.customRules = <<>> =>
          \A i \in 1..Len(calls) : calls[i].step # "rules"

\* The primary call carries a transformed text that was quoted by the
\* rules backend.
C30_Witness ==
    /\ \E i \in 1..Len(calls) :
          calls[i].step = "primary" /\ calls[i].text = <<"k">>
    /\ req.text # <<"k">>
    /\ \E k \in RulesAnswers : answers[k].text = <<"q", "k", "q">>

\* The rules backend answered with a quote only and the primary call
\* carries the request text.
C30_EmptyOutputWitness ==
    /\ \E i \in 1..Len(calls) :
          calls[i].step = "primary" /\ calls[i].text = req.text
    /\ \E k \in RulesAnswers : answers[k].ok /\ answers[k].text = <<"q">>

\* ------------------------------------------------ what the score compares
\* C31: in every result translate returns, accuracyScore is the scorer
\* applied to the request's original text and the result's reTranslation,
\* also when rule transformation replaced the text that was translated.
\* The token-overlap scorer is a function and its value is compared; the
\* generative scorer is a backend call and its arguments are compared.
C31_ScoredAgainstOriginal ==
    response.status = 200 =>
        /\ response.body.original = req.text
        /\ variant = "ai" =>
              response.body.accuracyScore =
                  calculateTextSimilarity(req.text, response.body.reTranslation)
        /\ variant = "dg" =>
              \E i \in 1..Len(calls) :
                  /\ calls[i].step = "score"
                  /\ calls[i].text = req.text
                  /\ calls[i].target = response.body.reTranslation

\* A result whose translated text was the rule-transformed one, and for
\* which the two texts score differently against the back-translation.
C31_Witness ==
    /\ response.status = 200
    /\ variant = "ai"
    /\ textToTranslate # req.text
    /\ calculateTextSimilarity(textToTranslate, response.body.reTranslation)
          # response.body.accuracyScore

\* ------------------------------------------------------ when to retry
\* C32: the retry of the primary translation without a formality hint is
\* issued only when the backend rejected the formality parameter; after
\* any other failure of the primary call no second call is made and the
\* request fails.
C32_RetryOnlyOnFormalityRejection ==
    /\ \A i \in 1..Len(calls) :
          calls[i].step = "retry" => firstError = FormalityRejected
    /\ \A k \in 1..Len(answers) :
          (answers[k].step = "primary" /\ ~answers[k].ok
                /\ answers[k].cause # FormalityRejected) =>
              /\ \A i \in 1..Len(calls) : calls[i].step # "retry"
              /\ response.status = 500

\* ----------------------------------------------------- scorer symmetry
\* C33: calculateTextSimilarity is symmetric: the score and explanation
\* for (a, b) are those for (b, a).
C33_ScoreSymmetric ==
    sim.scored =>
        sim.out = calculateTextSimilarity(sim.backTranslation, sim.original)

\* Two texts with different numbers of tokens, one of them repeating a
\* token, that share a token, were scored.
C33_Witness ==
    /\ sim.scored
    /\ Len(tokenize(sim.original)) > Len(tokenize(sim.backTranslation))
    /\ Cardinality(Range(tokenize(sim.original))) < Len(tokenize(sim.original))
    /\ sim.out.score > 0
    /\ sim.out.score < 100

\* -------------------------------------------- profile store: read and frame
\* C34: read after write: when saveProfile returns a profile without
\* throwing, getProfileById with the returned id gives a profile with the
\* same id, name, description, flags as the returned one.
C34_ReadAfterWrite ==
    (lastOp.op = "save" /\ lastOp.ok) =>
        /\ HasProfile(lastOp.returned.id)
        /\ getProfileById(lastOp.returned.id).id = lastOp.returned.id
        /\ getProfileById(lastOp.returned.id).name = lastOp.returned.name
        /\ getProfileById(lastOp.returned.id).isDefault = lastOp.returned.isDefault
        /\ getProfileById(lastOp.returned.id).canDelete = lastOp.returned.canDelete
        /\ getProfileById(lastOp.returned.id).description
              = lastOp.returned.description


PositionOf(stored, id) == existingIndex(stored, id)

\* C35: a successful saveProfile whose id is that of a stored custom
\* profile replaces that profile in place and leaves number, order and
\* contents of the others unchanged; with any other id it appends exactly
\* one profile; a successful deleteProfile removes the custom profiles with
\* the id and leaves the others unchanged.
C35_FrameOfSaveAndDelete ==
    /\ (lastOp.op = "save" /\ lastOp.ok) =>
          IF StoredIn(lastOp.before, lastOp.arg.id)
          THEN /\ Len(customProfiles) = Len(lastOp.before)
               /\ \A i \in 1..Len(lastOp.before) :
                     customProfiles[i] =
                        IF i = PositionOf(lastOp.before, lastOp.arg.id)
                        THEN lastOp.returned ELSE lastOp.before[i]
          ELSE customProfiles = Append(lastOp.before, lastOp.returned)
    /\ (lastOp.op = "delete" /\ lastOp.ok) =>
          customProfiles =
              SelectSeq(lastOp.before, LAMBDA p : p.id # lastOp.id)


\* Requests of the page that await api.translate for translateText.
TranslatesInFlight == {r \in ui.requests : r.kind = "translate"}

\* C36: once every translate request of the page has been answered and the
\* most recently issued one was answered with a result, the translation kept
\* in state.currentTranslation is the result of that most recent request,
\* whatever the order in which the responses arrived.
C36_LatestRequestWins ==
    (/\ TranslatesInFlight = {}
     /\ ui.lastTranslate \in ui.resolved
     /\ ui.currentTranslation.present)
        => ui.currentTranslation.seq = ui.lastTranslate

\* C37: after the Clear button or an emptied input, and until new text is
\* typed, state.currentTranslation is null and both buttons are disabled.
C37_ClearedStaysCleared ==
    ui.cleared =>
        /\ ~ui.currentTranslation.present
        /\ ui.copyDisabled
        /\ ui.variationDisabled

\* C38: at most one debounce timer is pending, it is the one scheduled by
\* the last input event and holds that event's text; between two input
\* events at most one timer fires, and the request it sends carries the
\* text of the last input event.
C38_OneTimerLastText ==
    /\ Cardinality(ui.timers) <= 1
    /\ \A t \in ui.timers : t.id = ui.debounceTimer /\ t.text = ui.lastInput
    /\ ui.firedSinceInput <= 1
    /\ \A r \in ui.requests : r.source = "debounce" => r.text = r.typed

\* A burst of two or more input events was followed by the only request of
\* the page, sent by the timer of the last event.
C38_Witness ==
    /\ ui.cancelled >= 1
    /\ ui.issued = 1
    /\ ui.firedSinceInput = 1
    /\ \E r \in ui.requests : r.source = "debounce" /\ r.text = ui.lastInput

====
